---- MODULE Spec2Model ----
(***************************************************************************)
(* State-machine model of src/public/script.js: the browser-injected       *)
(* analytics / UI-augmentation scripts of a hotel booking widget.  Each    *)
(* IIFE of the file is one closure with private state; the closures share  *)
(* the location, the document and the window object.  The browser's event  *)
(* loop is modelled by interleaving: every timer callback, event listener  *)
(* and observer callback is one atomic action (JavaScript runs each to     *)
(* completion), an await splits a listener in two actions.                 *)
(***************************************************************************)
EXTENDS Integers, Sequences, FiniteSets, TLC

(***************************************************************************)
(* Bounds of the model.                                                    *)
(***************************************************************************)
\* timeouts of one kind that may be pending at once
MaxPending == 2
\* timer / observer handles that may be live at once in one closure
MaxHandles == 3
\* saturation of the counters of events sent
MaxSent == 2
\* milliseconds the clock is followed for
MaxNow == 2
\* sibling nodes around the booking summary
MaxNodes == 2
\* badge and message elements the calendar popover may hold at once
MaxBadgeNodes == 2
\* changes of the calendar popover the host makes before it comes to rest
MaxHostMoves == 2
\* the same where one visit of the guests page after another is followed: the
\* summary container, one other element, and the banners of two visits
MaxVisitNodes == 4

Null == 0

VARIABLES
    \* ---- browser state shared by the closures
    url,                 \* window.location.href
    now,                 \* Date.now(), in milliseconds since the page was loaded
    readyState,          \* document.readyState: "loading" until DOMContentLoaded
    fbqLoaded,           \* typeof fbq === 'function'
    \* ---- host page content read by the purchase script
    reservationText,     \* a p[data-be-text] holds "reservation number is #..."
    summaryTotal,        \* amounts in the text of shopping-cart-summary-grand-total, in cents (<< >>: none)
    \* ---- purchase script (closure 1)
    purchaseEventCheckInterval,   \* window.__purchaseEventCheckInterval
    purchaseEventFired,           \* window.__purchaseEventFired (FALSE: unset)
    purchaseIntervals,            \* live setInterval handles of the closure
    purchaseTimeouts,             \* pending setTimeout(checkConfirmationPage, 50)
    zapierPurchasePosts,          \* Zapier POSTs sent in the current confirmation period
    pixelPurchaseCalls,           \* fbq('track', 'Purchase') calls since the URL last came
                                  \* to contain '/confirmation'
    \* ---- host page content read by the search / add-to-cart script
    bannerTotal,         \* amounts in the text of shopping-cart-banner-grand-total, in cents
    \* ---- search / add-to-cart script (closure 2)
    fired,               \* the fire-once guards: [Search |-> ..., AddToCart |-> ...]
    clickListeners,      \* { once: true } click listeners registered on document.body
    awaitingPrice,       \* click listeners suspended in `await getPriceValue()`
    addClicked,          \* an 'Add' button was clicked while fired.AddToCart was false
    initTimeouts,        \* pending setTimeout(init, 50)
    sent,                \* events handed to sendEvent: [Search |-> n, AddToCart |-> n]
    sentEventIds,        \* the event_id values sendEvent has used, each with the number of
                         \* events that carried it
    \* ---- host page content read by the payment-events script
    bodyPresent,         \* document.body exists
    bookNowButton,       \* the Book Now button: "absent", "plain", or "listening" (our listener on it)
    \* ---- payment-events script (closure 3)
    addPaymentInfoFired,              \* window.__addPaymentInfoFired
    paymentSubmitClickInitialized,    \* window.__paymentSubmitClickInitialized
    paymentSubmitClickFired,          \* window.__paymentSubmitClickFired
    paymentErrorFired,                \* window.__paymentErrorFired
    paymentErrorObserverInitialized,  \* window.__paymentErrorObserverInitialized
    checkButtonAttempts,  \* `attempts` of the pending checkButton timer, NoTimer if none
    tryObserveTimers,     \* `bodyCheckAttempts` of each pending tryObserveBody timer
    bodyObservers,        \* MutationObservers attached to document.body by trackPaymentError
    paymentValueWaits,    \* getPaymentValue() promises pending, per event
    getPaymentValueCalledAt,  \* Date.now() at the latest call of getPaymentValue()
    paymentSent,          \* sendCAPIEvent calls, per event
    capiEventIds,         \* the event_id values sendCAPIEvent has used, each with the number
                          \* of events that carried it
    addPaymentInfoVisitSent,  \* AddPaymentInfo events sent since the URL last came to
                              \* be a payment-step URL
    paymentErrorSentSinceCheck,   \* PaymentError events sent since checkForTrackingEvents
                                  \* last ran
    bookNowListenersAttached,     \* addEventListener calls on Book Now buttons
    trackingTimeouts,     \* pending setTimeout(checkForTrackingEvents, 50)
    \* ---- the three watcher closures below share no variable; a behaviour of
    \* ---- SpecWatchers follows the steps of the one `focus` names
    focus,
    routeActive,         \* per watcher: the route test of its last handleUrlChange run
    \* ---- host page content around the booking summary (cancellation banner)
    bannerDom,           \* the siblings of the summary container, in document order
    \* ---- cancellation-banner script (closure 5)
    Banner_initialCheckAttempt,     \* initialCheckAttempt
    Banner_initialCheckIntervalId,  \* initialCheckIntervalId
    Banner_observer,                \* observer
    Banner_intervals,               \* live setInterval handles of the closure
    Banner_observers,               \* connected MutationObservers of the closure
    bannerInsertDebounceTimer,      \* window._bannerInsertDebounceTimer is pending
    Banner_timeouts,                \* pending setTimeout(handleUrlChange, 50)
    \* ---- host page content: the price elements the deposit clarification reads
    priceElements,       \* per price element: present, its text kind, and whether
                         \* it holds the hp-deposit-clarification span
    \* ---- deposit-clarification script (closure 6)
    Deposit_initialCheckAttempt,          \* initialCheckAttempt
    Deposit_initialCheckIntervalId,       \* initialCheckIntervalId
    Deposit_persistentRecheckIntervalId,  \* persistentRecheckIntervalId
    Deposit_observer,                     \* observer
    Deposit_initialIntervals,             \* live initial-check intervals
    Deposit_persistentIntervals,          \* live persistent re-check intervals
    Deposit_observers,                    \* connected MutationObservers
    Deposit_timeouts,                     \* pending setTimeout(handleUrlChange, 50)
    Deposit_lastRecheck,                  \* what the persistent re-check did, when it was the last to
                                          \* touch the price elements: "idle" or "reinserted" (else "none")
    \* ---- host page content: the payment page title (security message)
    securityTarget,      \* an element matching TARGET_SELECTOR is in the document
    securityMessage,     \* #hp-security-message is inside it
    \* ---- security-message script (closure 8)
    Security_pollAttempts,   \* pollAttempts
    Security_pollInterval,   \* pollInterval
    Security_observer,       \* observer
    Security_intervals,      \* live poll intervals
    Security_observers,      \* connected MutationObservers
    Security_timeouts,       \* pending setTimeout(handleUrlChange, 50)
    \* ---- host page content: the calendar popover
    popoverInDocument,   \* an element matching POPOVER_SELECTOR is in the document
    popoverDom,          \* what the popover holds: the 'Price in USD' paragraph, the calendar,
                         \* the date range, the elements of class hp-deal-badge and
                         \* hp-nights-message in its subtree, and how many follow it
    Badge_hostMoves,     \* changes the host has made to the popover
    \* ---- date-badge script (closure 6)
    Badge_observing,     \* attachObserver found popoverElement and observes it
    Badge_attachTimeout, \* a setTimeout(attachObserver, 200) is pending
    debounceTimer,       \* debounceTimer is pending
    \* ---- host page content: the shopping cart as the host rendered it
    cart,                \* amounts of the host's text of the summary-total (subtotal),
                         \* taxes-and-fees, summary-grand-total and banner-grand-total
                         \* elements (<< >>: no element); summaryTotal and bannerTotal
                         \* are the text the last two hold now
    \* ---- deposit-rewrite script (closure 7)
    Rewrite_pollAttempts,    \* pollAttempts
    Rewrite_pollInterval,    \* pollInterval
    Rewrite_intervals,       \* live poll intervals
    Rewrite_timeouts,        \* pending restart timeouts of the history wrappers
    \* ---- the history object all closures wrap
    historyCall          \* the host's last call of history.pushState / replaceState: its
                         \* receiver and argument, what the call did in order, and
                         \* whether it threw

envVars == <<url, readyState>>
hostPurchaseVars == <<fbqLoaded, reservationText, summaryTotal>>
purchaseVars == <<purchaseEventCheckInterval, purchaseEventFired, purchaseIntervals,
                  purchaseTimeouts, zapierPurchasePosts, pixelPurchaseCalls>>
searchVars == <<bannerTotal, fired, clickListeners, awaitingPrice, addClicked, initTimeouts,
               sent, sentEventIds>>
hostPaymentVars == <<bodyPresent, bookNowButton>>
paymentVars == <<addPaymentInfoFired, paymentSubmitClickInitialized, paymentSubmitClickFired,
                 paymentErrorFired, paymentErrorObserverInitialized, checkButtonAttempts,
                 tryObserveTimers, bodyObservers, paymentValueWaits, getPaymentValueCalledAt, paymentSent,
                 capiEventIds, addPaymentInfoVisitSent, paymentErrorSentSinceCheck,
                 bookNowListenersAttached, trackingTimeouts>>
bannerVars == <<bannerDom, Banner_initialCheckAttempt, Banner_initialCheckIntervalId,
                Banner_observer, Banner_intervals, Banner_observers,
                bannerInsertDebounceTimer, Banner_timeouts>>
depositVars == <<priceElements, Deposit_initialCheckAttempt, Deposit_initialCheckIntervalId,
                 Deposit_persistentRecheckIntervalId, Deposit_observer,
                 Deposit_initialIntervals, Deposit_persistentIntervals, Deposit_observers,
                 Deposit_timeouts, Deposit_lastRecheck>>
securityVars == <<securityTarget, securityMessage, Security_pollAttempts,
                  Security_pollInterval, Security_observer, Security_intervals,
                  Security_observers, Security_timeouts>>
rewriteVars == <<Rewrite_pollAttempts, Rewrite_pollInterval, Rewrite_intervals,
                 Rewrite_timeouts>>
badgeVars == <<popoverInDocument, popoverDom, Badge_hostMoves, Badge_observing,
               Badge_attachTimeout, debounceTimer>>
watcherVars == <<focus, routeActive>>
allWatcherVars == <<watcherVars, bannerVars, depositVars, securityVars>>
vars == <<envVars, hostPurchaseVars, purchaseVars, searchVars, hostPaymentVars, paymentVars,
          allWatcherVars, cart, rewriteVars, historyCall, now, badgeVars>>

\* what the steps of one closure leave alone
notPurchaseScript == <<searchVars, hostPaymentVars, paymentVars, allWatcherVars, rewriteVars,
                       historyCall, now, badgeVars>>
notPurchase == <<notPurchaseScript, cart>>
notSearchScript == <<hostPurchaseVars, purchaseVars, hostPaymentVars, paymentVars,
                     allWatcherVars, rewriteVars, historyCall, now, badgeVars>>
notSearch == <<notSearchScript, cart>>
notPaymentScript == <<fbqLoaded, reservationText, purchaseVars, searchVars, allWatcherVars,
                      rewriteVars, historyCall, now, badgeVars>>
notPayment == <<notPaymentScript, cart>>
notWatchers == <<hostPurchaseVars, purchaseVars, searchVars, hostPaymentVars, paymentVars, focus,
                 cart, rewriteVars, historyCall, now, badgeVars>>
notRewrite == <<fbqLoaded, reservationText, purchaseVars, fired, clickListeners, awaitingPrice,
               addClicked,
                initTimeouts, sent, sentEventIds, hostPaymentVars, paymentVars, allWatcherVars,
                historyCall, now, badgeVars>>
notBadge == <<envVars, hostPurchaseVars, purchaseVars, searchVars, hostPaymentVars, paymentVars,
              allWatcherVars, cart, rewriteVars, historyCall, now>>
notBanner == <<notWatchers, depositVars, securityVars>>
notDeposit == <<notWatchers, bannerVars, securityVars>>
notSecurity == <<notWatchers, bannerVars, depositVars>>

(***************************************************************************)
(* Strings.  String.prototype.includes, and the parts of a URL.            *)
(***************************************************************************)
Includes(s, t) ==
    \E i \in 1..(Len(s) - Len(t) + 1) : SubSeq(s, i, i + Len(t) - 1) = t

\* index of the first occurrence of the one-character string c in s, Len(s)+1 if none
IndexOf(s, c) ==
    IF \E i \in 1..Len(s) : SubSeq(s, i, i) = c
    THEN CHOOSE i \in 1..Len(s) :
            /\ SubSeq(s, i, i) = c
            /\ \A j \in 1..(i - 1) : SubSeq(s, j, j) # c
    ELSE Len(s) + 1

Origin == "https://h.co"

Urls == { Origin \o "/reservation/Ab1?checkin=1",
          Origin \o "/reservation/Ab1?checkin=1&checkout=8",
          Origin \o "/reservation/Ab1/guests",
          Origin \o "/reservation/Ab1/payment",
          Origin \o "/reservation/Ab1/confirmation" }

\* the locations the host application moves between while a watcher closure is followed
WatcherUrls == { Origin \o "/",
                 Origin \o "/reservation/Ab1",
                 Origin \o "/reservation/Ab1/guests",
                 Origin \o "/reservation/Ab1/payment" }

Min(a, b) == IF a < b THEN a ELSE b

\* u has p at position i
StartsAt(u, i, p) == i + Len(p) - 1 <= Len(u) /\ SubSeq(u, i, i + Len(p) - 1) = p

\* the characters [a-zA-Z0-9] of the route patterns
Alnum == { "a", "b", "c", "d", "e", "f", "g", "h", "i", "j", "k", "l", "m", "n", "o", "p",
           "q", "r", "s", "t", "u", "v", "w", "x", "y", "z",
           "A", "B", "C", "D", "E", "F", "G", "H", "I", "J", "K", "L", "M", "N", "O", "P",
           "Q", "R", "S", "T", "U", "V", "W", "X", "Y", "Z",
           "0", "1", "2", "3", "4", "5", "6", "7", "8", "9" }

\* positions j such that u[i..j-1] is a match of [a-zA-Z0-9]+ starting at i
AlnumRunEnds(u, i) ==
    { j \in (i + 1)..(Len(u) + 1) : \A k \in i..(j - 1) : SubSeq(u, k, k) \in Alnum }

\* a handler that forgets to clear the interval it replaces
clearIntervalOmitted(live, id) == live

\* clearInterval(id) and observer.disconnect(): the handle is live no more
clearInterval(live, id) == live \ {id}
disconnect(connected, o) == connected \ {o}

\* the handle setInterval / new MutationObserver returns: one not in use
FreshHandle(inUse) == CHOOSE h \in 1..(MaxHandles + 1) :
                         /\ h \notin inUse
                         /\ \A k \in 1..(h - 1) : k \in inUse

(***************************************************************************)
(* Closure 1: purchase tracking on the confirmation page.                  *)
(***************************************************************************)
Amounts == { <<>>, <<0>>, <<29900>> }

\* the reservation id, or Null
getReservationIdFromPageText == IF reservationText THEN 1 ELSE Null

\* the first number with two decimals of the element's text, or Null
getTotalAmount == IF summaryTotal = <<>> THEN Null ELSE Head(summaryTotal)

confirmationUrls == { v \in Urls : Includes(v, "/confirmation") }
IsConfirmationUrl(u) == u \in confirmationUrls

\* the reservation id and the total are on the page of a confirmation URL
PurchasePeriod(u, res, total) ==
    IsConfirmationUrl(u) /\ res /\ total # <<>> /\ Head(total) # 0

\* ... were the early return on a missing total left out
TrackingDataFoundWithoutTotal == getReservationIdFromPageText # Null

\* executeTrackingLogic returns true
TrackingDataFound == getReservationIdFromPageText # Null /\ getTotalAmount # Null
                     /\ getTotalAmount # 0

\* typeof fbq === 'function', without the test of the flag
PixelGuardWithoutFlag == fbqLoaded

\* typeof fbq === 'function' && !window.__purchaseEventFired
PixelGuard == fbqLoaded /\ ~purchaseEventFired

\* executeTrackingLogic: the POST to Zapier, then the pixel behind its flag
executeTrackingLogic ==
    IF TrackingDataFound
    THEN /\ zapierPurchasePosts' = IF IsConfirmationUrl(url)
                                  THEN Min(zapierPurchasePosts + 1, MaxSent) ELSE 0
         /\ purchaseEventFired' = IF PixelGuard THEN TRUE ELSE purchaseEventFired
         /\ pixelPurchaseCalls' = IF PixelGuard /\ IsConfirmationUrl(url)
                                  THEN Min(pixelPurchaseCalls + 1, MaxSent)
                                  ELSE pixelPurchaseCalls
    ELSE UNCHANGED <<zapierPurchasePosts, purchaseEventFired, pixelPurchaseCalls>>

\* checkConfirmationPage, run with location u
checkConfirmationPage(u) ==
    IF IsConfirmationUrl(u)
    THEN /\ IF purchaseEventCheckInterval = Null
            THEN LET h == FreshHandle(purchaseIntervals) IN
                 /\ purchaseEventCheckInterval' = h
                 /\ purchaseIntervals' = purchaseIntervals \cup {h}
            ELSE UNCHANGED <<purchaseEventCheckInterval, purchaseIntervals>>
         /\ UNCHANGED purchaseEventFired
    ELSE IF purchaseEventCheckInterval # Null
         THEN /\ purchaseIntervals' = purchaseIntervals \ {purchaseEventCheckInterval}
              /\ purchaseEventCheckInterval' = Null
              /\ purchaseEventFired' = FALSE
         ELSE UNCHANGED <<purchaseEventCheckInterval, purchaseIntervals,
                          purchaseEventFired>>

\* the count of POSTs restarts when a confirmation period ends
PeriodCount(u, res, total) ==
    IF PurchasePeriod(u, res, total) THEN zapierPurchasePosts ELSE 0

\* the count of pixel calls restarts when the URL leaves '/confirmation'
PixelPeriodCount(u) == IF IsConfirmationUrl(u) THEN pixelPurchaseCalls ELSE 0

Purchase_DOMContentLoaded ==
    /\ readyState = "loading"
    /\ readyState' = "interactive"
    /\ checkConfirmationPage(url)
    /\ UNCHANGED <<url, hostPurchaseVars, purchaseTimeouts, zapierPurchasePosts,
                   pixelPurchaseCalls>>
    /\ UNCHANGED notPurchase

Purchase_popstate ==
    \E u \in Urls :
        /\ url' = u
        /\ checkConfirmationPage(u)
        /\ zapierPurchasePosts' = PeriodCount(u, reservationText, summaryTotal)
        /\ pixelPurchaseCalls' = PixelPeriodCount(u)
        /\ UNCHANGED <<readyState, hostPurchaseVars, purchaseTimeouts>>
        /\ UNCHANGED notPurchase

\* history.pushState and history.replaceState: the native call, then setTimeout
Purchase_pushState ==
    \E u \in Urls :
        /\ purchaseTimeouts < MaxPending
        /\ url' = u
        /\ purchaseTimeouts' = purchaseTimeouts + 1
        /\ zapierPurchasePosts' = PeriodCount(u, reservationText, summaryTotal)
        /\ pixelPurchaseCalls' = PixelPeriodCount(u)
        /\ UNCHANGED <<readyState, hostPurchaseVars, purchaseEventCheckInterval,
                       purchaseEventFired, purchaseIntervals>>
        /\ UNCHANGED notPurchase

Purchase_checkTimeout ==
    /\ purchaseTimeouts > 0
    /\ purchaseTimeouts' = purchaseTimeouts - 1
    /\ checkConfirmationPage(url)
    /\ UNCHANGED <<envVars, hostPurchaseVars, zapierPurchasePosts, pixelPurchaseCalls>>
    /\ UNCHANGED notPurchase

\* one tick of the 200ms interval
Purchase_intervalTick ==
    \E h \in purchaseIntervals :
        /\ executeTrackingLogic
        /\ IF TrackingDataFound
           THEN /\ purchaseIntervals' = purchaseIntervals \ {purchaseEventCheckInterval}
                /\ purchaseEventCheckInterval' = Null
           ELSE UNCHANGED <<purchaseEventCheckInterval, purchaseIntervals>>
        /\ UNCHANGED <<envVars, hostPurchaseVars, purchaseTimeouts>>
        /\ UNCHANGED notPurchase

\* the host page renders or removes the confirmation content; the pixel loads
Purchase_hostRender ==
    \E res \in BOOLEAN, total \in Amounts, fbq \in {fbqLoaded, TRUE} :
        /\ <<res, total, fbq>> # <<reservationText, summaryTotal, fbqLoaded>>
        /\ reservationText' = res
        /\ summaryTotal' = total
        /\ fbqLoaded' = fbq
        /\ zapierPurchasePosts' = IF PurchasePeriod(url, reservationText, summaryTotal)
                                     /\ PurchasePeriod(url, res, total)
                                  THEN zapierPurchasePosts ELSE 0
        /\ cart' = [cart EXCEPT !.grand = total]
        /\ UNCHANGED <<url, readyState, purchaseEventCheckInterval, purchaseEventFired,
                       purchaseIntervals, purchaseTimeouts, pixelPurchaseCalls>>
        /\ UNCHANGED notPurchaseScript

PurchaseNext ==
    \/ Purchase_DOMContentLoaded
    \/ Purchase_popstate
    \/ Purchase_pushState
    \/ Purchase_checkTimeout
    \/ Purchase_intervalTick
    \/ Purchase_hostRender

(***************************************************************************)
(* Closure 2: Search and AddToCart events.                                 *)
(***************************************************************************)
\* location.search: from the first "?" to the "#", without the "?"
LocationSearch(u) ==
    LET q == IndexOf(u, "?")
        h == IndexOf(u, "#")
    IN  IF q < h THEN SubSeq(u, q + 1, h - 1) ELSE ""

\* new URLSearchParams(search).has(name)
ParamsHas(search, name) ==
    \E i \in 1..(Len(search) - Len(name) + 1) :
        /\ i = 1 \/ SubSeq(search, i - 1, i - 1) = "&"
        /\ SubSeq(search, i, i + Len(name) - 1) = name
        /\ \/ i + Len(name) > Len(search)
           \/ SubSeq(search, i + Len(name), i + Len(name)) \in {"=", "&"}

stayDateUrls ==
    { v \in Urls : ParamsHas(LocationSearch(v), "checkin")
                     /\ ParamsHas(LocationSearch(v), "checkout") }
HasStayDates(u) == u \in stayDateUrls

\* getPriceValue's checkPrice finds a value > 0 and resolves with it
PriceResolves == bannerTotal # <<>> /\ Head(bannerTotal) > 0

\* 'evt_' + Date.now(), at time t
event_id(t) == <<"evt_", t>>

\* one more event carries event_id(t)
WithEventId(ids, t) ==
    IF event_id(t) \in DOMAIN ids
    THEN [ids EXCEPT ![event_id(t)] = Min(@ + 1, MaxSent)]
    ELSE ids @@ (event_id(t) :> 1)

\* the clock moves on by a millisecond
ClockTick ==
    /\ now < MaxNow
    /\ now' = now + 1
    /\ UNCHANGED <<envVars, hostPurchaseVars, purchaseVars, searchVars, hostPaymentVars,
                   paymentVars, allWatcherVars, cart, rewriteVars, historyCall, badgeVars>>

\* sendEvent(eventName): the pixel call and the POST to Zapier
sendEvent(s, eventName) == [s EXCEPT ![eventName] = Min(@ + 1, MaxSent)]

\* ... were checkSearchStep to run without `if (fired.Search) return`
checkSearchStepUnguarded(u) ==
    IF HasStayDates(u)
    THEN <<TRUE, sendEvent(sent, "Search")>>
    ELSE <<fired.Search, sent>>

\* checkSearchStep, as the pair <<fired.Search, sent>> it leaves
checkSearchStep(u) ==
    IF ~fired.Search /\ HasStayDates(u)
    THEN <<TRUE, sendEvent(sent, "Search")>>
    ELSE <<fired.Search, sent>>

\* init: checkSearchStep(), then initAddToCartListener() registers one more listener
init(u) ==
    /\ fired' = [fired EXCEPT !.Search = checkSearchStep(u)[1]]
    /\ sent' = checkSearchStep(u)[2]
    /\ sentEventIds' = IF checkSearchStep(u)[2] # sent
                       THEN WithEventId(sentEventIds, now)
                       ELSE sentEventIds
    /\ clickListeners' = clickListeners + 1

Search_DOMContentLoaded ==
    /\ readyState = "loading"
    /\ clickListeners < MaxHandles
    /\ readyState' = "interactive"
    /\ init(url)
    /\ UNCHANGED <<url, bannerTotal, awaitingPrice, addClicked, initTimeouts>>
    /\ UNCHANGED notSearch

Search_popstate ==
    \E u \in Urls :
        /\ clickListeners < MaxHandles
        /\ url' = u
        /\ init(u)
        /\ UNCHANGED <<readyState, bannerTotal, awaitingPrice, addClicked, initTimeouts>>
        /\ UNCHANGED notSearch

\* the wrapper this closure installs on history.pushState
Search_pushState ==
    \E u \in Urls :
        /\ initTimeouts < MaxPending
        /\ url' = u
        /\ initTimeouts' = initTimeouts + 1
        /\ UNCHANGED <<readyState, bannerTotal, fired, clickListeners,
                       awaitingPrice, addClicked, sent, sentEventIds>>
        /\ UNCHANGED notSearch

\* history.replaceState: this closure installs no wrapper on it
Search_replaceState ==
    \E u \in Urls :
        /\ url' = u
        /\ UNCHANGED <<readyState, searchVars>>
        /\ UNCHANGED notSearch

Search_initTimeout ==
    /\ initTimeouts > 0
    /\ clickListeners < MaxHandles
    /\ initTimeouts' = initTimeouts - 1
    /\ init(url)
    /\ UNCHANGED <<envVars, bannerTotal, awaitingPrice, addClicked>>
    /\ UNCHANGED notSearch

\* a click somewhere in the body: every registered listener runs up to its await
\* (or returns) and, being { once: true }, is removed
Search_click ==
    \E onAddButton \in BOOLEAN :
        /\ clickListeners > 0
        /\ awaitingPrice + clickListeners <= MaxHandles
        /\ clickListeners' = 0
        /\ awaitingPrice' = IF ~fired.AddToCart /\ onAddButton
                            THEN awaitingPrice + clickListeners
                            ELSE awaitingPrice
        /\ addClicked' = (addClicked \/ (onAddButton /\ ~fired.AddToCart))
        /\ UNCHANGED <<envVars, bannerTotal, fired, initTimeouts, sent, sentEventIds>>
        /\ UNCHANGED notSearch

\* a click on an 'Add' button of the rendered page when no click listener is
\* registered on the body: no code of the closure runs
Search_clickUnheard ==
    /\ readyState # "loading"
    /\ clickListeners = 0
    /\ ~fired.AddToCart
    /\ ~addClicked
    /\ addClicked' = TRUE
    /\ UNCHANGED <<envVars, bannerTotal, fired, clickListeners, awaitingPrice,
                   initTimeouts, sent, sentEventIds>>
    /\ UNCHANGED notSearch

\* a checkPrice timer of getPriceValue resolves and the listener resumes after
\* its await: `if (value || value === 0) { fired.AddToCart = true; sendEvent(...) }`
Search_priceResolved ==
    /\ awaitingPrice > 0
    /\ PriceResolves
    /\ awaitingPrice' = awaitingPrice - 1
    /\ fired' = [fired EXCEPT !.AddToCart = TRUE]
    /\ sent' = sendEvent(sent, "AddToCart")
    /\ sentEventIds' = WithEventId(sentEventIds, now)
    /\ UNCHANGED <<envVars, bannerTotal, clickListeners, addClicked, initTimeouts>>
    /\ UNCHANGED notSearch

\* the host page renders the cart banner total
Search_hostRender ==
    \E total \in Amounts :
        /\ total # bannerTotal
        /\ bannerTotal' = total
        /\ cart' = [cart EXCEPT !.banner = total]
        /\ UNCHANGED <<envVars, fired, clickListeners, awaitingPrice, addClicked,
                       initTimeouts, sent, sentEventIds>>
        /\ UNCHANGED notSearchScript

SearchNext ==
    \/ Search_DOMContentLoaded
    \/ Search_popstate
    \/ Search_pushState
    \/ Search_replaceState
    \/ Search_initTimeout
    \/ Search_click
    \/ Search_priceResolved
    \/ Search_hostRender

\* the closure registers its listeners and wrappers when it runs; it does not call init
InitSearch ==
    /\ bannerTotal = <<>>
    /\ fired = [Search |-> FALSE, AddToCart |-> FALSE]
    /\ clickListeners = 0
    /\ awaitingPrice = 0
    /\ addClicked = FALSE
    /\ initTimeouts = 0
    /\ sent = [Search |-> 0, AddToCart |-> 0]
    /\ sentEventIds = <<>>


(***************************************************************************)
(* Closure 3: AddPaymentInfo, PaymentSubmitClick and PaymentError.         *)
(* The host's router runs in the body: it navigates once <body> exists.    *)
(***************************************************************************)
maxAttempts == 20
maxBodyCheckAttempts == 20
NoTimer == -1

PaymentEvents == {"AddPaymentInfo", "PaymentSubmitClick", "PaymentError"}

\* location.pathname
Pathname(u) ==
    SubSeq(u, Len(Origin) + 1, Min(IndexOf(u, "?"), IndexOf(u, "#")) - 1)

paymentStepUrls ==
    { v \in Urls : Includes(Pathname(v), "/reservation/") /\ Includes(v, "/payment") }
IsPaymentStep(u) == u \in paymentStepUrls

\* the count of AddPaymentInfo events restarts when the URL enters or leaves the
\* payment step
VisitSent(u) ==
    IF IsPaymentStep(u) /\ IsPaymentStep(url) THEN addPaymentInfoVisitSent ELSE 0

\* getPaymentValue's checkPrice finds a value > 0 and resolves with it
PaymentValueResolves == summaryTotal # <<>> /\ Head(summaryTotal) > 0

\* the sequence s without its i-th element
RemoveAt(s, i) == SubSeq(s, 1, i - 1) \o SubSeq(s, i + 1, Len(s))

\* ... were trackPaymentSubmitClick to run without its initialized flag
SubmitClickPollStartsUnflagged(u) == IsPaymentStep(u)

\* checkForTrackingEvents calls trackPaymentSubmitClick on the payment step, and
\* it gets past `if (window.__paymentSubmitClickInitialized) return`
SubmitClickPollStarts(u) == IsPaymentStep(u) /\ ~paymentSubmitClickInitialized

\* checkForTrackingEvents, run with location u: the two flags are reset, then
\* fireAddPaymentInfoOnce and trackPaymentSubmitClick on the payment step, then
\* trackPaymentError
checkForTrackingEvents(u) ==
    /\ paymentSubmitClickFired' = FALSE
    /\ paymentErrorFired' = FALSE
    /\ IF IsPaymentStep(u) /\ ~addPaymentInfoFired
       THEN /\ addPaymentInfoFired' = TRUE
            /\ paymentValueWaits' = [paymentValueWaits EXCEPT !.AddPaymentInfo = @ + 1]
            /\ getPaymentValueCalledAt' = now
       ELSE UNCHANGED <<addPaymentInfoFired, paymentValueWaits, getPaymentValueCalledAt>>
    /\ IF SubmitClickPollStarts(u)
       THEN /\ paymentSubmitClickInitialized' = TRUE
            /\ checkButtonAttempts' = 0
       ELSE UNCHANGED <<paymentSubmitClickInitialized, checkButtonAttempts>>
    /\ IF ~paymentErrorObserverInitialized
       THEN tryObserveTimers' = Append(tryObserveTimers, 0)
       ELSE UNCHANGED tryObserveTimers
    /\ addPaymentInfoVisitSent' = VisitSent(u)
    /\ paymentErrorSentSinceCheck' = 0
    /\ UNCHANGED bookNowListenersAttached
    /\ UNCHANGED <<paymentErrorObserverInitialized, bodyObservers, paymentSent,
                   capiEventIds>>

\* room for the timer trackPaymentError may arm
TimerRoom == paymentErrorObserverInitialized \/ Len(tryObserveTimers) < MaxPending

Payment_DOMContentLoaded ==
    /\ readyState = "loading"
    /\ bodyPresent
    /\ TimerRoom
    /\ readyState' = "interactive"
    /\ checkForTrackingEvents(url)
    /\ UNCHANGED <<url, summaryTotal, hostPaymentVars, trackingTimeouts>>
    /\ UNCHANGED notPayment

Payment_popstate ==
    \E u \in Urls :
        /\ bodyPresent
        /\ TimerRoom
        /\ url' = u
        /\ checkForTrackingEvents(u)
        /\ UNCHANGED <<readyState, summaryTotal, hostPaymentVars, trackingTimeouts>>
        /\ UNCHANGED notPayment

\* the wrapper this closure installs on history.pushState
Payment_pushState ==
    \E u \in Urls :
        /\ bodyPresent
        /\ trackingTimeouts < MaxPending
        /\ url' = u
        /\ trackingTimeouts' = trackingTimeouts + 1
        /\ addPaymentInfoVisitSent' = VisitSent(u)
        /\ UNCHANGED <<paymentErrorSentSinceCheck, bookNowListenersAttached>>
        /\ UNCHANGED <<readyState, summaryTotal, hostPaymentVars,
                       addPaymentInfoFired, paymentSubmitClickInitialized,
                       paymentSubmitClickFired, paymentErrorFired,
                       paymentErrorObserverInitialized, checkButtonAttempts,
                       tryObserveTimers, bodyObservers, paymentValueWaits, getPaymentValueCalledAt, paymentSent,
                       capiEventIds>>
        /\ UNCHANGED notPayment

\* history.replaceState: this closure installs no wrapper on it
Payment_replaceState ==
    \E u \in Urls :
        /\ bodyPresent
        /\ url' = u
        /\ addPaymentInfoVisitSent' = VisitSent(u)
        /\ UNCHANGED <<paymentErrorSentSinceCheck, bookNowListenersAttached>>
        /\ UNCHANGED <<readyState, summaryTotal, hostPaymentVars,
                       addPaymentInfoFired, paymentSubmitClickInitialized,
                       paymentSubmitClickFired, paymentErrorFired,
                       paymentErrorObserverInitialized, checkButtonAttempts,
                       tryObserveTimers, bodyObservers, paymentValueWaits, getPaymentValueCalledAt, paymentSent,
                       capiEventIds,
                       trackingTimeouts>>
        /\ UNCHANGED notPayment

Payment_checkTimeout ==
    /\ trackingTimeouts > 0
    /\ TimerRoom
    /\ trackingTimeouts' = trackingTimeouts - 1
    /\ checkForTrackingEvents(url)
    /\ UNCHANGED <<envVars, summaryTotal, hostPaymentVars>>
    /\ UNCHANGED notPayment

\* a getPaymentValue promise resolves and its .then sends the event
valueResolved(ev) ==
        /\ paymentValueWaits[ev] > 0
        /\ PaymentValueResolves
        /\ paymentValueWaits' = [paymentValueWaits EXCEPT ![ev] = @ - 1]
        /\ UNCHANGED getPaymentValueCalledAt
        /\ paymentSent' = [paymentSent EXCEPT ![ev] = Min(@ + 1, MaxSent)]
        /\ capiEventIds' = WithEventId(capiEventIds, now)
        /\ addPaymentInfoVisitSent' =
              IF ev = "AddPaymentInfo" /\ IsPaymentStep(url)
              THEN Min(addPaymentInfoVisitSent + 1, MaxSent)
              ELSE addPaymentInfoVisitSent
        /\ paymentErrorSentSinceCheck' =
              IF ev = "PaymentError"
              THEN Min(paymentErrorSentSinceCheck + 1, MaxSent)
              ELSE paymentErrorSentSinceCheck
        /\ UNCHANGED bookNowListenersAttached
        /\ UNCHANGED <<envVars, summaryTotal, hostPaymentVars, addPaymentInfoFired,
                       paymentSubmitClickInitialized, paymentSubmitClickFired,
                       paymentErrorFired, paymentErrorObserverInitialized,
                       checkButtonAttempts, tryObserveTimers, bodyObservers,
                       trackingTimeouts>>
        /\ UNCHANGED notPayment

Payment_errorValueResolved == valueResolved("PaymentError")

Payment_infoValueResolved == valueResolved("AddPaymentInfo")

Payment_submitValueResolved == valueResolved("PaymentSubmitClick")

\* the checkButton timer of trackPaymentSubmitClick
Payment_checkButton ==
    /\ checkButtonAttempts # NoTimer
    /\ IF bookNowButton # "absent"
       THEN /\ bookNowButton' = "listening"
            /\ checkButtonAttempts' = NoTimer
            /\ bookNowListenersAttached' = Min(bookNowListenersAttached + 1, MaxSent)
       ELSE /\ checkButtonAttempts' = IF checkButtonAttempts < maxAttempts
                                      THEN checkButtonAttempts + 1 ELSE NoTimer
            /\ UNCHANGED <<bookNowButton, bookNowListenersAttached>>
    /\ UNCHANGED <<envVars, summaryTotal, bodyPresent, addPaymentInfoFired,
                   paymentSubmitClickInitialized, paymentSubmitClickFired,
                   paymentErrorFired, paymentErrorObserverInitialized, tryObserveTimers,
                   bodyObservers, paymentValueWaits, getPaymentValueCalledAt, paymentSent, capiEventIds, trackingTimeouts,
                   addPaymentInfoVisitSent,
                       paymentErrorSentSinceCheck>>
    /\ UNCHANGED notPayment

\* a click on the Book Now button that holds the { once: true } listener
Payment_clickBookNow ==
    /\ bookNowButton = "listening"
    /\ paymentValueWaits.PaymentSubmitClick < MaxPending
    /\ bookNowButton' = "plain"
    /\ IF paymentSubmitClickFired
       THEN UNCHANGED <<paymentSubmitClickFired, paymentValueWaits, getPaymentValueCalledAt>>
       ELSE /\ paymentSubmitClickFired' = TRUE
            /\ paymentValueWaits' = [paymentValueWaits EXCEPT !.PaymentSubmitClick = @ + 1]
            /\ getPaymentValueCalledAt' = now
    /\ UNCHANGED <<envVars, summaryTotal, bodyPresent, addPaymentInfoFired,
                   paymentSubmitClickInitialized, paymentErrorFired,
                   paymentErrorObserverInitialized, checkButtonAttempts, tryObserveTimers,
                   bodyObservers, paymentSent, capiEventIds, trackingTimeouts, addPaymentInfoVisitSent,
                       paymentErrorSentSinceCheck, bookNowListenersAttached>>
    /\ UNCHANGED notPayment

\* a tryObserveBody timer of trackPaymentError
Payment_tryObserveBody ==
    \E i \in 1..Len(tryObserveTimers) :
        /\ IF bodyPresent
           THEN /\ bodyObservers' = Min(bodyObservers + 1, MaxHandles)
                /\ paymentErrorObserverInitialized' = TRUE
                /\ tryObserveTimers' = RemoveAt(tryObserveTimers, i)
           ELSE /\ tryObserveTimers' =
                      IF tryObserveTimers[i] < maxBodyCheckAttempts
                      THEN [tryObserveTimers EXCEPT ![i] = @ + 1]
                      ELSE RemoveAt(tryObserveTimers, i)
                /\ UNCHANGED <<bodyObservers, paymentErrorObserverInitialized>>
        /\ UNCHANGED <<envVars, summaryTotal, hostPaymentVars, addPaymentInfoFired,
                       paymentSubmitClickInitialized, paymentSubmitClickFired,
                       paymentErrorFired, checkButtonAttempts, paymentValueWaits, getPaymentValueCalledAt,
                       paymentSent, capiEventIds, trackingTimeouts, addPaymentInfoVisitSent,
                       paymentErrorSentSinceCheck, bookNowListenersAttached>>
        /\ UNCHANGED notPayment

\* the host adds a node matching the error selector: each observer's callback runs,
\* the first one that finds __paymentErrorFired unset sets it and awaits the value
Payment_errorNodeAdded ==
    /\ bodyObservers > 0
    /\ ~paymentErrorFired
    /\ paymentValueWaits.PaymentError < MaxPending
    /\ paymentErrorFired' = TRUE
    /\ paymentValueWaits' = [paymentValueWaits EXCEPT !.PaymentError = @ + 1]
    /\ getPaymentValueCalledAt' = now
    /\ UNCHANGED <<envVars, summaryTotal, hostPaymentVars, addPaymentInfoFired,
                   paymentSubmitClickInitialized, paymentSubmitClickFired,
                   paymentErrorObserverInitialized, checkButtonAttempts, tryObserveTimers,
                   bodyObservers, paymentSent, capiEventIds, trackingTimeouts, addPaymentInfoVisitSent,
                       paymentErrorSentSinceCheck, bookNowListenersAttached>>
    /\ UNCHANGED notPayment

\* the host page parses <body> and renders the grand total
Payment_hostRender ==
    \E body \in {bodyPresent, TRUE}, total \in Amounts :
        /\ <<body, total>> # <<bodyPresent, summaryTotal>>
        /\ bodyPresent' = body
        /\ summaryTotal' = total
        /\ cart' = [cart EXCEPT !.grand = total]
        /\ UNCHANGED <<envVars, bookNowButton, paymentVars>>
        /\ UNCHANGED notPaymentScript

\* the host page renders, re-renders or removes the Book Now button; a re-rendered
\* button is a new element without our listener
Payment_hostRenderButton ==
    \E btn \in {"absent", "plain"} :
        /\ bodyPresent
        /\ btn # bookNowButton \/ bookNowButton = "listening"
        /\ bookNowButton' = btn
        /\ UNCHANGED <<envVars, summaryTotal, bodyPresent, paymentVars>>
        /\ UNCHANGED notPayment

\* The three features of the closure (AddPaymentInfo, the Book Now listener, the
\* error observer) read and write disjoint variables; they meet only in
\* checkForTrackingEvents, which every navigation step runs whole.  The steps of the
\* error observer, with the navigation steps and the host's:
PaymentErrorNext ==
    \/ Payment_DOMContentLoaded
    \/ Payment_popstate
    \/ Payment_pushState
    \/ Payment_replaceState
    \/ Payment_checkTimeout
    \/ Payment_errorValueResolved
    \/ Payment_tryObserveBody
    \/ Payment_errorNodeAdded
    \/ Payment_hostRender

\* the closure's last statement calls checkForTrackingEvents
InitPayment ==
    /\ bodyPresent \in (IF readyState = "loading" THEN BOOLEAN ELSE {TRUE})
    /\ bookNowButton = "absent"
    /\ addPaymentInfoFired = IsPaymentStep(url)
    /\ paymentSubmitClickInitialized = IsPaymentStep(url)
    /\ paymentSubmitClickFired = FALSE
    /\ paymentErrorFired = FALSE
    /\ paymentErrorObserverInitialized = FALSE
    /\ checkButtonAttempts = IF IsPaymentStep(url) THEN 0 ELSE NoTimer
    /\ tryObserveTimers = <<0>>
    /\ bodyObservers = 0
    /\ paymentValueWaits = [ev \in PaymentEvents |->
                              IF ev = "AddPaymentInfo" /\ IsPaymentStep(url) THEN 1 ELSE 0]
    /\ getPaymentValueCalledAt = 0
    /\ paymentSent = [ev \in PaymentEvents |-> 0]
    /\ capiEventIds = <<>>
    /\ addPaymentInfoVisitSent = 0
    /\ paymentErrorSentSinceCheck = 0
    /\ bookNowListenersAttached = 0
    /\ trackingTimeouts = 0

(***************************************************************************)
(* Closure 5: the cancellation banner on the guests page.                  *)
(***************************************************************************)
Banner_INITIAL_CHECK_MAX_ATTEMPTS == 50

guestsUrls == { v \in WatcherUrls : Includes(v, "/reservation/") /\ Includes(v, "/guests") }
Banner_isTargetPage(u) == u \in guestsUrls

\* index of the first node x of the sibling list, 0 if none:
\* document.querySelector / document.getElementById
FirstNode(dom, x) ==
    IF \E i \in 1..Len(dom) : dom[i] = x
    THEN CHOOSE i \in 1..Len(dom) : dom[i] = x /\ \A j \in 1..(i - 1) : dom[j] # x
    ELSE 0

InsertAt(dom, i, x) == SubSeq(dom, 1, i - 1) \o <<x>> \o SubSeq(dom, i, Len(dom))

\* banner && target && banner.nextElementSibling === target
BannerPlaced(dom) ==
    /\ FirstNode(dom, "banner") # 0
    /\ FirstNode(dom, "target") = FirstNode(dom, "banner") + 1

\* insertBanner: the sibling list it leaves, and its return value
insertBannerDom(dom) ==
    IF FirstNode(dom, "target") = 0 \/ BannerPlaced(dom)
    THEN dom
    ELSE InsertAt(dom, FirstNode(dom, "target"), "banner")

insertBanner(dom) ==
    /\ FirstNode(dom, "target") # 0
    /\ BannerPlaced(insertBannerDom(dom))

\* the list has room for what insertBanner adds
BannerRoomIn(dom, room) == Len(insertBannerDom(dom)) <= room
BannerRoom(dom) == BannerRoomIn(dom, MaxNodes)

\* the observer callback after a mutation: every childList mutation is relevant,
\* the debounce timer is cleared and armed again
BannerDebounceAfter(dom2) ==
    IF dom2 # bannerDom /\ Banner_observers # {} THEN TRUE ELSE bannerInsertDebounceTimer

\* initializeBannerObserver, as the pair <<observer, connected observers>> it leaves
initializeBannerObserver ==
    LET rest == disconnect(Banner_observers, Banner_observer)
        o == FreshHandle(rest)
    IN  <<o, rest \cup {o}>>

\* handleUrlChange of the banner closure, run with location u
Banner_handleUrlChange(u) ==
    /\ routeActive' = [routeActive EXCEPT !.banner = Banner_isTargetPage(u)]
    /\ IF Banner_isTargetPage(u)
       THEN LET rest == clearInterval(Banner_intervals, Banner_initialCheckIntervalId)
                h == FreshHandle(rest)
            IN  /\ Banner_intervals' = rest \cup {h}
                /\ Banner_initialCheckIntervalId' = h
                /\ Banner_initialCheckAttempt' = 0
       ELSE /\ Banner_intervals' = clearInterval(Banner_intervals, Banner_initialCheckIntervalId)
            /\ Banner_initialCheckIntervalId' = Null
            /\ UNCHANGED Banner_initialCheckAttempt
    /\ Banner_observers' = disconnect(Banner_observers, Banner_observer)
    /\ Banner_observer' = Null

Banner_DOMContentLoaded ==
    /\ focus = "banner"
    /\ readyState = "loading"
    /\ readyState' = "interactive"
    /\ Banner_handleUrlChange(url)
    /\ UNCHANGED <<url, bannerDom, bannerInsertDebounceTimer, Banner_timeouts>>
    /\ UNCHANGED notBanner

\* history.pushState and history.replaceState: the native call, then setTimeout
Banner_pushStateTo(urls) ==
    \E u \in urls :
        /\ readyState # "loading"
        /\ Banner_timeouts < MaxPending
        /\ url' = u
        /\ Banner_timeouts' = Banner_timeouts + 1
        /\ UNCHANGED <<readyState, routeActive, bannerDom, Banner_initialCheckAttempt,
                       Banner_initialCheckIntervalId, Banner_observer, Banner_intervals,
                       Banner_observers, bannerInsertDebounceTimer>>
        /\ UNCHANGED notBanner

Banner_pushState == focus = "banner" /\ Banner_pushStateTo(WatcherUrls)

\* back / forward: this closure registers no popstate listener
Banner_popstate ==
    \E u \in WatcherUrls :
        /\ focus = "banner"
        /\ readyState # "loading"
        /\ url' = u
        /\ UNCHANGED <<readyState, routeActive, bannerVars>>
        /\ UNCHANGED notBanner

Banner_urlTimeout ==
    /\ focus = "banner"
    /\ Banner_timeouts > 0
    /\ Banner_timeouts' = Banner_timeouts - 1
    /\ Banner_handleUrlChange(url)
    /\ UNCHANGED <<envVars, bannerDom, bannerInsertDebounceTimer>>
    /\ UNCHANGED notBanner

\* one tick of the initial poll, in a sibling list of at most `room` nodes
Banner_intervalTickIn(room) ==
    \E h \in Banner_intervals :
        /\ BannerRoomIn(bannerDom, room)
        /\ bannerDom' = insertBannerDom(bannerDom)
        /\ bannerInsertDebounceTimer' = BannerDebounceAfter(insertBannerDom(bannerDom))
        /\ IF insertBanner(bannerDom)
              \/ Banner_initialCheckAttempt >= Banner_INITIAL_CHECK_MAX_ATTEMPTS
           THEN /\ Banner_intervals' =
                       clearInterval(Banner_intervals, Banner_initialCheckIntervalId)
                /\ Banner_initialCheckIntervalId' = Null
                /\ IF Banner_initialCheckAttempt >= Banner_INITIAL_CHECK_MAX_ATTEMPTS
                   THEN UNCHANGED <<Banner_observer, Banner_observers>>
                   ELSE /\ Banner_observer' = initializeBannerObserver[1]
                        /\ Banner_observers' = initializeBannerObserver[2]
           ELSE UNCHANGED <<Banner_initialCheckIntervalId, Banner_intervals,
                            Banner_observer, Banner_observers>>
        /\ Banner_initialCheckAttempt' = Banner_initialCheckAttempt + 1
        /\ UNCHANGED <<envVars, routeActive, Banner_timeouts>>
        /\ UNCHANGED notBanner

Banner_intervalTick == focus = "banner" /\ Banner_intervalTickIn(MaxNodes)

\* the 50ms debounce timer armed by the observer callback
Banner_debounceTimeoutIn(room) ==
    /\ bannerInsertDebounceTimer
    /\ BannerRoomIn(bannerDom, room)
    /\ LET dom2 == IF BannerPlaced(bannerDom) THEN bannerDom
                   ELSE insertBannerDom(bannerDom)
       IN  /\ bannerDom' = dom2
           /\ bannerInsertDebounceTimer' = (dom2 # bannerDom /\ Banner_observers # {})
    /\ UNCHANGED <<envVars, routeActive, Banner_initialCheckAttempt,
                   Banner_initialCheckIntervalId, Banner_observer, Banner_intervals,
                   Banner_observers, Banner_timeouts>>
    /\ UNCHANGED notBanner

Banner_debounceTimeout == focus = "banner" /\ Banner_debounceTimeoutIn(MaxNodes)

\* what the host page may do to the sibling list in one step: remove a node, or
\* insert the summary container or another element
BannerHostMoves(dom) ==
    { RemoveAt(dom, i) : i \in 1..Len(dom) }
    \cup (IF Len(dom) < MaxNodes
          THEN { InsertAt(dom, i, x) : i \in 1..(Len(dom) + 1), x \in {"target", "other"} }
          ELSE {})

\* the host's moves where the page has one summary container and one other element
\* beside it: it removes either, or renders the one that is missing
BannerVisitHostMoves(dom) ==
    { RemoveAt(dom, i) : i \in { j \in 1..Len(dom) : dom[j] # "banner" } }
    \cup { InsertAt(dom, i, x) : i \in 1..(Len(dom) + 1),
                                 x \in { y \in {"target", "other"} : FirstNode(dom, y) = 0 } }

Banner_hostMutationTo(moves) ==
    \E dom2 \in moves :
        /\ bannerDom' = dom2
        /\ bannerInsertDebounceTimer' = BannerDebounceAfter(dom2)
        /\ UNCHANGED <<envVars, routeActive, Banner_initialCheckAttempt,
                       Banner_initialCheckIntervalId, Banner_observer, Banner_intervals,
                       Banner_observers, Banner_timeouts>>
        /\ UNCHANGED notBanner

Banner_hostMutation == focus = "banner" /\ Banner_hostMutationTo(BannerHostMoves(bannerDom))

\* the steps of the closure over successive visits of the guests page
BannerVisitUrls == { v \in WatcherUrls : Banner_isTargetPage(v) \/ IsPaymentStep(v) }
BannerVisit_pushState == focus = "banner" /\ Banner_pushStateTo(BannerVisitUrls)
BannerVisit_intervalTick == focus = "banner" /\ Banner_intervalTickIn(MaxVisitNodes)
BannerVisit_debounceTimeout == focus = "banner" /\ Banner_debounceTimeoutIn(MaxVisitNodes)
BannerVisit_hostMutation ==
    focus = "banner" /\ Banner_hostMutationTo(BannerVisitHostMoves(bannerDom))

BannerVisitNext ==
    \/ Banner_DOMContentLoaded
    \/ BannerVisit_pushState
    \/ Banner_urlTimeout
    \/ BannerVisit_intervalTick
    \/ BannerVisit_debounceTimeout
    \/ BannerVisit_hostMutation

BannerNext ==
    \/ Banner_DOMContentLoaded
    \/ Banner_pushState
    \/ Banner_popstate
    \/ Banner_urlTimeout
    \/ Banner_intervalTick
    \/ Banner_debounceTimeout
    \/ Banner_hostMutation

\* the closure's last statement calls handleUrlChange
InitBanner ==
    /\ bannerDom = <<>>
    /\ Banner_initialCheckAttempt = 0
    /\ Banner_initialCheckIntervalId = IF Banner_isTargetPage(url) THEN 1 ELSE Null
    /\ Banner_intervals = IF Banner_isTargetPage(url) THEN {1} ELSE {}
    /\ Banner_observer = Null
    /\ Banner_observers = {}
    /\ bannerInsertDebounceTimer = FALSE
    /\ Banner_timeouts = 0

(***************************************************************************)
(* Closure 6: the deposit clarification next to the prices.                *)
(***************************************************************************)
Deposit_INITIAL_CHECK_MAX_ATTEMPTS == 50

\* /\/reservation\/[a-zA-Z0-9]+\/?(?!\/guests)/.test(u): some match of the prefix,
\* with or without the optional slash, is not followed by "/guests"
isRoomSelectionPage(u) ==
    \E i \in 1..Len(u) :
        /\ StartsAt(u, i, "/reservation/")
        /\ \E j \in AlnumRunEnds(u, i + Len("/reservation/")) :
              \/ ~StartsAt(u, j, "/guests")
              \/ StartsAt(u, j, "/") /\ ~StartsAt(u, j + 1, "/guests")

roomSelectionUrls == { v \in WatcherUrls : isRoomSelectionPage(v) }
Deposit_isTargetPage(u) == u \in roomSelectionUrls

\* the elements matched by ROOM_PRICE_SELECTOR (one rate plan) and
\* SUMMARY_TOTAL_PRICE_SELECTOR, named by their uniqueIdSuffix
PriceElementIds == {"room-0", "summary-total"}

\* what the text of a price element is to insertClarification: it contains
\* 'Only Pay'; or getDepositAmount finds a total above 0.01 in it; or neither
TextKinds == {"onlyPay", "total", "none"}

\* querySelector finds no such element
Absent == [present |-> FALSE, text |-> "none", span |-> FALSE]

PriceElementStates ==
    {Absent} \cup [present : {TRUE}, text : TextKinds, span : BOOLEAN]

\* insertClarification(priceElement, suffix): its return value and the element it leaves
insertClarification(el) ==
    /\ el.present
    /\ el.text = "total"

\* ... were the 'Only Pay' branch to return without removing the span
insertClarificationDomKeepingSpan(el) ==
    IF ~el.present THEN el
    ELSE IF el.text = "onlyPay" THEN el
    ELSE IF el.text = "total" THEN [el EXCEPT !.span = TRUE]
    ELSE el

insertClarificationDom(el) ==
    IF ~el.present THEN el
    ELSE IF el.text = "onlyPay" THEN [el EXCEPT !.span = FALSE]
    ELSE IF el.text = "total" THEN [el EXCEPT !.span = TRUE]
    ELSE el

\* attemptInsertionLogic: its return value insertedAny and the elements it leaves
attemptInsertionLogic(dom) == \E e \in PriceElementIds : insertClarification(dom[e])

attemptInsertionLogicDom(dom) == [e \in PriceElementIds |-> insertClarificationDom(dom[e])]

\* attemptInsertionLogic on the elements dom: the elements and the persistent
\* interval it leaves
AttemptInsertion(dom) ==
    /\ priceElements' = attemptInsertionLogicDom(dom)
    /\ IF attemptInsertionLogic(dom) /\ Deposit_persistentRecheckIntervalId = Null
       THEN LET h == FreshHandle(Deposit_persistentIntervals)
            IN  /\ Deposit_persistentRecheckIntervalId' = h
                /\ Deposit_persistentIntervals' = Deposit_persistentIntervals \cup {h}
       ELSE UNCHANGED <<Deposit_persistentRecheckIntervalId, Deposit_persistentIntervals>>

\* ... and the initial interval it leaves: cleared when something was inserted
InitialIntervalAfter(dom) ==
    IF attemptInsertionLogic(dom)
    THEN /\ Deposit_initialIntervals' =
                clearInterval(Deposit_initialIntervals, Deposit_initialCheckIntervalId)
         /\ Deposit_initialCheckIntervalId' = Null
    ELSE UNCHANGED <<Deposit_initialIntervals, Deposit_initialCheckIntervalId>>

\* initializeDepositObserver, as the pair <<observer, connected observers>> it leaves
initializeDepositObserver ==
    LET rest == disconnect(Deposit_observers, Deposit_observer)
        o == FreshHandle(rest)
    IN  <<o, rest \cup {o}>>

\* handleUrlChange of the deposit closure, run with location u
Deposit_handleUrlChange(u) ==
    /\ routeActive' = [routeActive EXCEPT !.deposit = Deposit_isTargetPage(u)]
    /\ Deposit_persistentIntervals' =
           clearInterval(Deposit_persistentIntervals, Deposit_persistentRecheckIntervalId)
    /\ Deposit_persistentRecheckIntervalId' = Null
    /\ Deposit_observers' = disconnect(Deposit_observers, Deposit_observer)
    /\ Deposit_observer' = Null
    /\ IF Deposit_isTargetPage(u)
       THEN LET rest == clearInterval(Deposit_initialIntervals,
                                      Deposit_initialCheckIntervalId)
                h == FreshHandle(rest)
            IN  /\ Deposit_initialIntervals' = rest \cup {h}
                /\ Deposit_initialCheckIntervalId' = h
                /\ Deposit_initialCheckAttempt' = 0
       ELSE /\ Deposit_initialIntervals' =
                   clearInterval(Deposit_initialIntervals, Deposit_initialCheckIntervalId)
            /\ Deposit_initialCheckIntervalId' = Null
            /\ UNCHANGED Deposit_initialCheckAttempt

Deposit_DOMContentLoaded ==
    /\ focus = "deposit"
    /\ readyState = "loading"
    /\ readyState' = "interactive"
    /\ Deposit_handleUrlChange(url)
    /\ UNCHANGED <<url, priceElements, Deposit_timeouts, Deposit_lastRecheck>>
    /\ UNCHANGED notDeposit

\* history.pushState and history.replaceState: the native call, then setTimeout
Deposit_pushStateTo(urls) ==
    \E u \in urls :
        /\ readyState # "loading"
        /\ Deposit_timeouts < MaxPending
        /\ url' = u
        /\ Deposit_timeouts' = Deposit_timeouts + 1
        /\ UNCHANGED <<readyState, routeActive, priceElements, Deposit_initialCheckAttempt,
                       Deposit_initialCheckIntervalId, Deposit_persistentRecheckIntervalId,
                       Deposit_observer, Deposit_initialIntervals,
                       Deposit_persistentIntervals, Deposit_observers,
                       Deposit_lastRecheck>>
        /\ UNCHANGED notDeposit

Deposit_pushState == focus = "deposit" /\ Deposit_pushStateTo(WatcherUrls)

\* the host repeats the current entry: history.replaceState(state, '', location.href)
Deposit_replaceStateSameUrl == focus = "deposit" /\ Deposit_pushStateTo({url})

\* back / forward: this closure registers no popstate listener
Deposit_popstate ==
    \E u \in WatcherUrls :
        /\ focus = "deposit"
        /\ readyState # "loading"
        /\ url' = u
        /\ UNCHANGED <<readyState, routeActive, depositVars>>
        /\ UNCHANGED notDeposit

Deposit_urlTimeout ==
    /\ focus = "deposit"
    /\ Deposit_timeouts > 0
    /\ Deposit_timeouts' = Deposit_timeouts - 1
    /\ Deposit_handleUrlChange(url)
    /\ UNCHANGED <<envVars, priceElements, Deposit_lastRecheck>>
    /\ UNCHANGED notDeposit

\* one tick of the initial poll
Deposit_initialTick ==
    \E h \in Deposit_initialIntervals :
        /\ focus = "deposit"
        /\ AttemptInsertion(priceElements)
        /\ IF attemptInsertionLogic(priceElements)
              \/ Deposit_initialCheckAttempt >= Deposit_INITIAL_CHECK_MAX_ATTEMPTS
           THEN /\ Deposit_initialIntervals' =
                       clearInterval(Deposit_initialIntervals, Deposit_initialCheckIntervalId)
                /\ Deposit_initialCheckIntervalId' = Null
                /\ Deposit_observer' = initializeDepositObserver[1]
                /\ Deposit_observers' = initializeDepositObserver[2]
           ELSE UNCHANGED <<Deposit_initialIntervals, Deposit_initialCheckIntervalId,
                            Deposit_observer, Deposit_observers>>
        /\ Deposit_initialCheckAttempt' = Deposit_initialCheckAttempt + 1
        /\ Deposit_lastRecheck' = "none"
        /\ UNCHANGED <<envVars, routeActive, Deposit_timeouts>>
        /\ UNCHANGED notDeposit

\* needsReinsertion of the persistent re-check
needsReinsertion(dom) ==
    \E e \in PriceElementIds :
        /\ dom[e].present
        /\ ~dom[e].span
        /\ dom[e].text # "onlyPay"

\* one tick of the persistent re-check; the observer callback its own DOM change
\* triggers runs attemptInsertionLogic again and changes nothing more
Deposit_persistentTick ==
    \E h \in Deposit_persistentIntervals :
        /\ focus = "deposit"
        /\ IF needsReinsertion(priceElements)
           THEN /\ AttemptInsertion(priceElements) /\ InitialIntervalAfter(priceElements)
                /\ Deposit_lastRecheck' = "reinserted"
           ELSE /\ UNCHANGED <<priceElements, Deposit_persistentRecheckIntervalId,
                               Deposit_persistentIntervals, Deposit_initialIntervals,
                               Deposit_initialCheckIntervalId>>
                /\ Deposit_lastRecheck' = "idle"
        /\ UNCHANGED <<envVars, routeActive, Deposit_initialCheckAttempt, Deposit_observer,
                       Deposit_observers, Deposit_timeouts>>
        /\ UNCHANGED notDeposit

\* what the host page may do to one price element in one step: remove it, render it
\* anew (without the span), or change its text in place
DepositHostMoves(dom) ==
    UNION { { [dom EXCEPT ![e] = st] :
                st \in { x \in PriceElementStates :
                           /\ x # dom[e]
                           /\ x.span => dom[e].span } } :
            e \in PriceElementIds }

\* what applyDepositChanges of the deposit-rewrite closure does to the grand total of
\* the summary: innerHTML is replaced, by the 'Only Pay ...' content or by the
\* 'Loading ...' content, and the children the element had are gone
RewriteMoves(dom) ==
    IF dom["summary-total"].present
    THEN { [dom EXCEPT !["summary-total"] = [present |-> TRUE, text |-> t, span |-> FALSE]] :
             t \in {"onlyPay", "none"} }
    ELSE {}

\* a mutation of the price elements; a connected observer finds it relevant and calls
\* attemptInsertionLogic
Deposit_mutationTo(moves) ==
    \E dom2 \in moves :
        /\ IF Deposit_observers # {}
           THEN AttemptInsertion(dom2) /\ InitialIntervalAfter(dom2)
           ELSE /\ priceElements' = dom2
                /\ UNCHANGED <<Deposit_persistentRecheckIntervalId,
                               Deposit_persistentIntervals, Deposit_initialIntervals,
                               Deposit_initialCheckIntervalId>>
        /\ Deposit_lastRecheck' = "none"
        /\ UNCHANGED <<envVars, routeActive, Deposit_initialCheckAttempt, Deposit_observer,
                       Deposit_observers, Deposit_timeouts>>
        /\ UNCHANGED notDeposit

\* a host mutation
Deposit_hostMutation ==
    focus = "deposit" /\ Deposit_mutationTo(DepositHostMoves(priceElements))

\* a host mutation whose first record is a characterData record: its target is a
\* Text node, target.matches is not a function, and the observer callback throws
\* before it reaches attemptInsertionLogic
Deposit_hostMutationCallbackThrows ==
    \E dom2 \in DepositHostMoves(priceElements) :
        /\ focus = "deposit"
        /\ Deposit_observers # {}
        /\ priceElements' = dom2
        /\ Deposit_lastRecheck' = "none"
        /\ UNCHANGED <<envVars, routeActive, Deposit_initialCheckAttempt,
                       Deposit_initialCheckIntervalId, Deposit_persistentRecheckIntervalId,
                       Deposit_observer, Deposit_initialIntervals,
                       Deposit_persistentIntervals, Deposit_observers, Deposit_timeouts>>
        /\ UNCHANGED notDeposit

\* a tick of the deposit-rewrite closure's poll that writes the grand total
Deposit_rewriteWrite ==
    focus = "deposit" /\ Deposit_mutationTo(RewriteMoves(priceElements))

\* the steps in which attemptInsertionLogic runs
RunsAttemptInsertionLogic ==
    \/ Deposit_initialTick
    \/ needsReinsertion(priceElements) /\ Deposit_persistentTick
    \/ Deposit_observers # {} /\ (Deposit_hostMutation \/ Deposit_rewriteWrite)

DepositNext ==
    \/ Deposit_DOMContentLoaded
    \/ Deposit_pushState
    \/ Deposit_popstate
    \/ Deposit_urlTimeout
    \/ Deposit_initialTick
    \/ Deposit_persistentTick
    \/ Deposit_hostMutation

\* the closure's last statement calls handleUrlChange unless the document is loading
InitDeposit ==
    LET ran == readyState # "loading" /\ Deposit_isTargetPage(url)
    IN  /\ priceElements = [e \in PriceElementIds |-> Absent]
        /\ Deposit_initialCheckAttempt = 0
        /\ Deposit_initialCheckIntervalId = IF ran THEN 1 ELSE Null
        /\ Deposit_initialIntervals = IF ran THEN {1} ELSE {}
        /\ Deposit_persistentRecheckIntervalId = Null
        /\ Deposit_persistentIntervals = {}
        /\ Deposit_observer = Null
        /\ Deposit_observers = {}
        /\ Deposit_timeouts = 0
        /\ Deposit_lastRecheck = "none"

(***************************************************************************)
(* Closure 8: the security message in the payment page title.              *)
(***************************************************************************)
Security_MAX_POLL_ATTEMPTS == 300

\* the string with A-Z replaced by a-z
RECURSIVE ToLower(_)
ToLower(u) ==
    IF u = "" THEN ""
    ELSE LET c == SubSeq(u, 1, 1)
             up == <<"A", "B", "C", "D", "E", "F", "G", "H", "I", "J", "K", "L", "M",
                     "N", "O", "P", "Q", "R", "S", "T", "U", "V", "W", "X", "Y", "Z">>
             lo == <<"a", "b", "c", "d", "e", "f", "g", "h", "i", "j", "k", "l", "m",
                     "n", "o", "p", "q", "r", "s", "t", "u", "v", "w", "x", "y", "z">>
         IN  (IF \E k \in 1..26 : up[k] = c
              THEN lo[CHOOSE k \in 1..26 : up[k] = c]
              ELSE c) \o ToLower(SubSeq(u, 2, Len(u)))

\* TARGET_PAGE_REGEX.test(u), /\/reservation\/[a-zA-Z0-9]+\/payment/i
TARGET_PAGE_REGEX(u) ==
    LET v == ToLower(u)
    IN  \E i \in 1..Len(v) :
            /\ StartsAt(v, i, "/reservation/")
            /\ \E j \in AlnumRunEnds(v, i + Len("/reservation/")) : StartsAt(v, j, "/payment")

securityPaymentUrls == { v \in WatcherUrls : TARGET_PAGE_REGEX(v) }
isPaymentPage(u) == u \in securityPaymentUrls

\* insertMessage: true iff the target element exists; the message is then inside it
\* and the poll interval is cleared
insertMessage == securityTarget

\* initializeObserver, as the pair <<observer, connected observers>> it leaves when
\* called with observer o0 of the connected ones c0
initializeObserver(o0, c0) ==
    LET rest == disconnect(c0, o0)
        o == FreshHandle(rest)
    IN  <<o, rest \cup {o}>>

\* handleUrlChange of the security closure, run with location u
Security_handleUrlChange(u) ==
    /\ routeActive' = [routeActive EXCEPT !.security = isPaymentPage(u)]
    /\ IF isPaymentPage(u)
       THEN LET rest == clearInterval(Security_intervals, Security_pollInterval)
                h == FreshHandle(rest)
                obs == initializeObserver(Null, disconnect(Security_observers,
                                                           Security_observer))
            IN  /\ Security_intervals' = rest \cup {h}
                /\ Security_pollInterval' = h
                /\ Security_pollAttempts' = 0
                /\ Security_observer' = obs[1]
                /\ Security_observers' = obs[2]
                /\ UNCHANGED securityMessage
       ELSE /\ Security_intervals' = clearInterval(Security_intervals, Security_pollInterval)
            /\ Security_pollInterval' = Null
            /\ Security_observers' = disconnect(Security_observers, Security_observer)
            /\ Security_observer' = Null
            /\ securityMessage' = FALSE
            /\ UNCHANGED Security_pollAttempts

Security_DOMContentLoaded ==
    /\ focus = "security"
    /\ readyState = "loading"
    /\ readyState' = "interactive"
    /\ Security_handleUrlChange(url)
    /\ UNCHANGED <<url, securityTarget, Security_timeouts>>
    /\ UNCHANGED notSecurity

\* history.pushState and history.replaceState: the native call, then setTimeout
Security_pushState ==
    \E u \in WatcherUrls :
        /\ focus = "security"
        /\ readyState # "loading"
        /\ Security_timeouts < MaxPending
        /\ url' = u
        /\ Security_timeouts' = Security_timeouts + 1
        /\ UNCHANGED <<readyState, routeActive, securityTarget, securityMessage,
                       Security_pollAttempts, Security_pollInterval, Security_observer,
                       Security_intervals, Security_observers>>
        /\ UNCHANGED notSecurity

\* back / forward: this closure registers no popstate listener
Security_popstate ==
    \E u \in WatcherUrls :
        /\ focus = "security"
        /\ readyState # "loading"
        /\ url' = u
        /\ UNCHANGED <<readyState, routeActive, securityVars>>
        /\ UNCHANGED notSecurity

Security_urlTimeout ==
    /\ focus = "security"
    /\ Security_timeouts > 0
    /\ Security_timeouts' = Security_timeouts - 1
    /\ Security_handleUrlChange(url)
    /\ UNCHANGED <<envVars, securityTarget>>
    /\ UNCHANGED notSecurity

\* one tick of the poll
Security_pollTick ==
    \E h \in Security_intervals :
        /\ focus = "security"
        /\ Security_pollAttempts' = Security_pollAttempts + 1
        /\ securityMessage' = (securityMessage \/ insertMessage)
        /\ IF insertMessage \/ Security_pollAttempts + 1 >= Security_MAX_POLL_ATTEMPTS
           THEN /\ Security_intervals' =
                       clearInterval(Security_intervals, Security_pollInterval)
                /\ Security_pollInterval' = Null
                /\ Security_observer' =
                       initializeObserver(Security_observer, Security_observers)[1]
                /\ Security_observers' =
                       initializeObserver(Security_observer, Security_observers)[2]
           ELSE UNCHANGED <<Security_pollInterval, Security_intervals, Security_observer,
                            Security_observers>>
        /\ UNCHANGED <<envVars, routeActive, securityTarget, Security_timeouts>>
        /\ UNCHANGED notSecurity

\* the host removes the target element, the message inside it included; an observer
\* callback finds no added node and does nothing
Security_hostRemovesTarget ==
    /\ focus = "security"
    /\ securityTarget
    /\ securityTarget' = FALSE
    /\ securityMessage' = FALSE
    /\ UNCHANGED <<envVars, routeActive, Security_pollAttempts, Security_pollInterval,
                   Security_observer, Security_intervals, Security_observers,
                   Security_timeouts>>
    /\ UNCHANGED notSecurity

\* the host inserts a target element; a connected observer finds the added node, no
\* message in the document, and calls insertMessage, then disconnects
Security_hostAddsTarget ==
    /\ focus = "security"
    /\ ~securityTarget
    /\ securityTarget' = TRUE
    /\ IF Security_observers # {} /\ ~securityMessage
       THEN /\ securityMessage' = TRUE
            /\ Security_intervals' = clearInterval(Security_intervals, Security_pollInterval)
            /\ Security_pollInterval' = Null
            /\ Security_observers' = disconnect(Security_observers, Security_observer)
            /\ Security_observer' = Null
       ELSE UNCHANGED <<securityMessage, Security_pollInterval, Security_intervals,
                        Security_observer, Security_observers>>
    /\ UNCHANGED <<envVars, routeActive, Security_pollAttempts, Security_timeouts>>
    /\ UNCHANGED notSecurity

SecurityNext ==
    \/ Security_DOMContentLoaded
    \/ Security_pushState
    \/ Security_popstate
    \/ Security_urlTimeout
    \/ Security_pollTick
    \/ Security_hostRemovesTarget
    \/ Security_hostAddsTarget

\* the closure's last statement calls handleUrlChange unless the document is loading
InitSecurity ==
    LET ran == readyState # "loading" /\ isPaymentPage(url)
    IN  /\ securityTarget = FALSE
        /\ securityMessage = FALSE
        /\ Security_pollAttempts = 0
        /\ Security_pollInterval = IF ran THEN 1 ELSE Null
        /\ Security_intervals = IF ran THEN {1} ELSE {}
        /\ Security_observer = IF ran THEN 1 ELSE Null
        /\ Security_observers = IF ran THEN {1} ELSE {}
        /\ Security_timeouts = 0

\* the three watcher closures, one followed at a time
WatchersNext ==
    \/ Banner_DOMContentLoaded
    \/ Banner_pushState
    \/ Banner_popstate
    \/ Banner_urlTimeout
    \/ Banner_intervalTick
    \/ Banner_debounceTimeout
    \/ Banner_hostMutation
    \/ Deposit_DOMContentLoaded
    \/ Deposit_pushState
    \/ Deposit_popstate
    \/ Deposit_urlTimeout
    \/ Deposit_initialTick
    \/ Deposit_persistentTick
    \/ Deposit_hostMutation
    \/ Security_DOMContentLoaded
    \/ Security_pushState
    \/ Security_popstate
    \/ Security_urlTimeout
    \/ Security_pollTick
    \/ Security_hostRemovesTarget
    \/ Security_hostAddsTarget

InitRoutes ==
    routeActive = [banner |-> Banner_isTargetPage(url),
                   deposit |-> readyState # "loading" /\ Deposit_isTargetPage(url),
                   security |-> readyState # "loading" /\ isPaymentPage(url)]


(***************************************************************************)
(* Closure 7: deposit rewrite of the cart totals.  The script polls the   *)
(* cart every 300ms and, once the subtotal is positive, replaces the text *)
(* of the two grand-total elements by "Only Pay USD <half> Today".  It    *)
(* has no route test and no popstate listener.                            *)
(***************************************************************************)
Rewrite_MAX_POLL_ATTEMPTS == 200

\* what the host renders of the cart: nothing, the cart before prices are known,
\* the totals without their breakdown, the priced cart
EmptyCart == [subtotal |-> <<>>, taxes |-> <<>>, grand |-> <<>>, banner |-> <<>>]
CartSnapshots ==
    { EmptyCart,
      [subtotal |-> <<0>>, taxes |-> <<0>>, grand |-> <<0>>, banner |-> <<0>>],
      [subtotal |-> <<>>, taxes |-> <<>>, grand |-> <<29900>>, banner |-> <<29900>>],
      [subtotal |-> <<20000>>, taxes |-> <<9900>>, grand |-> <<29900>>, banner |-> <<>>],
      [subtotal |-> <<20000>>, taxes |-> <<9900>>, grand |-> <<29900>>, banner |-> <<29900>>] }

\* the closure never reads the location; its navigations are followed between the
\* two pages that show the cart summary
CartUrls == { v \in Urls : IsPaymentStep(v) \/ IsConfirmationUrl(v) }

\* parsePrice: the first number with two decimals of the text, else 0
parsePrice(amounts) == IF amounts = <<>> THEN 0 ELSE Head(amounts)

\* the elements applyDepositChanges needs are in the document
Rewrite_elementsFound ==
    cart.subtotal # <<>> /\ cart.taxes # <<>> /\ (cart.grand # <<>> \/ cart.banner # <<>>)

\* ... and their values pass `subtotal > 0 && taxesFees >= 0`
Rewrite_valuesValid ==
    Rewrite_elementsFound /\ parsePrice(cart.subtotal) > 0 /\ parsePrice(cart.taxes) >= 0

\* (subtotal / 2).toFixed(2) and (subtotal / 2 + taxesFees).toFixed(2), in cents
halfSubtotal == parsePrice(cart.subtotal) \div 2
balance == parsePrice(cart.subtotal) \div 2 + parsePrice(cart.taxes)

\* the amounts in the text of grandContent and of bannerContent
grandContent == <<halfSubtotal, balance>>
bannerContent == <<halfSubtotal>>

\* the text of an element after innerHTML = content, if the element exists
WriteInnerHTML(hostText, text, content) == IF hostText # <<>> THEN content ELSE text

\* the placeholders "Loading Deposit and Balance..." and "Loading Deposit..." hold no amount
LoadingContent == <<>>

\* the final test of applyDepositChanges, with the interval as the branches left it
Rewrite_stopAtMax(attempts, interval, live) ==
    IF attempts >= Rewrite_MAX_POLL_ATTEMPTS /\ interval # Null
    THEN /\ Rewrite_intervals' = clearInterval(live, interval)
         /\ Rewrite_pollInterval' = Null
    ELSE /\ Rewrite_intervals' = live
         /\ Rewrite_pollInterval' = interval

\* applyDepositChanges, no statement of it throwing
applyDepositChanges ==
    /\ Rewrite_pollAttempts' = Rewrite_pollAttempts + 1
    /\ IF Rewrite_valuesValid
       THEN /\ summaryTotal' = WriteInnerHTML(cart.grand, summaryTotal, grandContent)
            /\ bannerTotal' = WriteInnerHTML(cart.banner, bannerTotal, bannerContent)
            /\ Rewrite_stopAtMax(Rewrite_pollAttempts + 1, Null,
                                 clearInterval(Rewrite_intervals, Rewrite_pollInterval))
       ELSE /\ summaryTotal' = WriteInnerHTML(cart.grand, summaryTotal, LoadingContent)
            /\ bannerTotal' = WriteInnerHTML(cart.banner, bannerTotal, LoadingContent)
            /\ Rewrite_stopAtMax(Rewrite_pollAttempts + 1, Rewrite_pollInterval,
                                 Rewrite_intervals)

\* applyDepositChanges when a statement of the try block throws: the write of the
\* grand total ("grand") or the write of the banner total ("banner"); the catch
\* block only logs
applyDepositChangesThrowing(at) ==
    /\ Rewrite_valuesValid
    /\ IF at = "grand" THEN cart.grand # <<>> ELSE cart.banner # <<>>
    /\ Rewrite_pollAttempts' = Rewrite_pollAttempts + 1
    /\ summaryTotal' = IF at = "banner"
                       THEN WriteInnerHTML(cart.grand, summaryTotal, grandContent)
                       ELSE summaryTotal
    /\ bannerTotal' = bannerTotal
    /\ Rewrite_stopAtMax(Rewrite_pollAttempts + 1, Null,
                         clearInterval(Rewrite_intervals, Rewrite_pollInterval))

\* startPollingSafely, with the interval as the caller left it
startPollingSafely(interval, live) ==
    IF interval = Null
    THEN LET h == FreshHandle(live) IN
         /\ Rewrite_pollInterval' = h
         /\ Rewrite_intervals' = live \cup {h}
    ELSE /\ Rewrite_pollInterval' = interval
         /\ Rewrite_intervals' = live

Rewrite_DOMContentLoaded ==
    /\ readyState = "loading"
    /\ readyState' = "interactive"
    /\ startPollingSafely(Rewrite_pollInterval, Rewrite_intervals)
    /\ UNCHANGED <<url, summaryTotal, bannerTotal, cart, Rewrite_pollAttempts,
                   Rewrite_timeouts>>
    /\ UNCHANGED notRewrite

\* history.pushState and history.replaceState: the native call, then setTimeout
Rewrite_pushState ==
    \E u \in CartUrls :
        /\ Rewrite_timeouts < MaxPending
        /\ url' = u
        /\ Rewrite_timeouts' = Rewrite_timeouts + 1
        /\ UNCHANGED <<readyState, summaryTotal, bannerTotal, cart, Rewrite_pollAttempts,
                       Rewrite_pollInterval, Rewrite_intervals>>
        /\ UNCHANGED notRewrite

\* the wrappers' timeout: stop the poll, reset the count, start again
Rewrite_restartTimeout ==
    /\ Rewrite_timeouts > 0
    /\ Rewrite_timeouts' = Rewrite_timeouts - 1
    /\ Rewrite_pollAttempts' = 0
    /\ startPollingSafely(Null, clearInterval(Rewrite_intervals, Rewrite_pollInterval))
    /\ UNCHANGED <<envVars, summaryTotal, bannerTotal, cart>>
    /\ UNCHANGED notRewrite

\* one tick of the 300ms interval
Rewrite_pollTick ==
    \E h \in Rewrite_intervals :
        /\ applyDepositChanges
        /\ UNCHANGED <<envVars, cart, Rewrite_timeouts>>
        /\ UNCHANGED notRewrite

Rewrite_pollTickThrows ==
    \E h \in Rewrite_intervals, at \in {"grand", "banner"} :
        /\ applyDepositChangesThrowing(at)
        /\ UNCHANGED <<envVars, cart, Rewrite_timeouts>>
        /\ UNCHANGED notRewrite

\* the host page renders the cart anew
Rewrite_hostRender ==
    \E c \in CartSnapshots :
        /\ c # cart
        /\ cart' = c
        /\ summaryTotal' = c.grand
        /\ bannerTotal' = c.banner
        /\ UNCHANGED <<envVars, rewriteVars>>
        /\ UNCHANGED notRewrite

RewriteNext ==
    \/ Rewrite_DOMContentLoaded
    \/ Rewrite_pushState
    \/ Rewrite_restartTimeout
    \/ Rewrite_pollTick
    \/ Rewrite_pollTickThrows
    \/ Rewrite_hostRender

\* the closure starts the poll when it runs in a parsed document
InitRewrite ==
    /\ cart = EmptyCart
    /\ Rewrite_pollAttempts = 0
    /\ Rewrite_pollInterval = IF readyState = "loading" THEN Null ELSE 1
    /\ Rewrite_intervals = IF readyState = "loading" THEN {} ELSE {1}
    /\ Rewrite_timeouts = 0


(***************************************************************************)
(* The history object.  Every closure that wraps history.pushState or     *)
(* history.replaceState saves the function it finds and installs          *)
(*     function() { original.apply(this, arguments); setTimeout(f, 50); } *)
(* so that the host's call enters the wrapper installed last and reaches  *)
(* the native function through all the others.                            *)
(***************************************************************************)
\* the closures wrapping each function, in the order they run (and install)
pushStateWrappers ==
    <<"purchase", "search", "payment", "banner", "deposit", "rewrite", "security">>
replaceStateWrappers == <<"purchase", "banner", "deposit", "rewrite", "security">>

\* a URL of another origin: the native functions throw a SecurityError for it
ForeignUrl == "https://x.co/"
SameOrigin(u) == Len(u) >= Len(Origin) /\ SubSeq(u, 1, Len(Origin)) = Origin

\* the receivers a call can have: window.history, or another object (the native
\* functions throw a TypeError for it)
Receivers == {"history", "other"}

NativeThrows(call) == call.this # "history" \/ ~SameOrigin(call.args)

\* the native function: invoked with the receiver and argument it is handed
NativeCall(call) ==
    [log |-> <<[op |-> "native", by |-> "browser", this |-> call.this, args |-> call.args]>>,
     threw |-> NativeThrows(call)]

\* original(...arguments): the receiver is lost
ApplyOriginalUnbound(call) == [call EXCEPT !.this = "other"]

\* original.apply(this, arguments): what the wrapped function receives
ApplyOriginal(call) == call

\* setTimeout(recheck, 50) of a wrapper
ScheduleRecheck(log, call, script) ==
    Append(log, [op |-> "setTimeout", by |-> script, this |-> call.this, args |-> call.args])

\* the call of the i-th wrapper of the chain (0: the native function); an exception
\* of the wrapped function leaves the wrapper before its setTimeout
RECURSIVE CallWrapper(_, _, _)
CallWrapper(chain, i, call) ==
    IF i = 0 THEN NativeCall(call)
    ELSE LET r == CallWrapper(chain, i - 1, ApplyOriginal(call)) IN
         IF r.threw THEN r
         ELSE [r EXCEPT !.log = ScheduleRecheck(r.log, call, chain[i])]

\* the timeouts a closure scheduled during the call
Scheduled(log, script) ==
    Cardinality({ i \in 1..Len(log) : log[i].op = "setTimeout" /\ log[i].by = script })

\* the timeouts added to the pending ones of a closure: a behaviour follows the
\* re-checks of the one closure `focus` names
ScheduledFollowed(log, script) == IF focus = script THEN Scheduled(log, script) ELSE 0

\* the host calls fn on `this` with URL u
HistoryCall(fn, chain, this, u) ==
    LET r == CallWrapper(chain, Len(chain), [this |-> this, args |-> u])
        after == IF r.threw THEN url ELSE u
    IN  /\ purchaseTimeouts + ScheduledFollowed(r.log, "purchase") <= MaxPending
        /\ initTimeouts + ScheduledFollowed(r.log, "search") <= MaxPending
        /\ trackingTimeouts + ScheduledFollowed(r.log, "payment") <= MaxPending
        /\ Rewrite_timeouts + ScheduledFollowed(r.log, "rewrite") <= MaxPending
        /\ Banner_timeouts + ScheduledFollowed(r.log, "banner") <= MaxPending
        /\ Deposit_timeouts + ScheduledFollowed(r.log, "deposit") <= MaxPending
        /\ Security_timeouts + ScheduledFollowed(r.log, "security") <= MaxPending
        /\ historyCall' = [fn |-> fn, this |-> this, args |-> u, log |-> r.log, threw |-> r.threw]
        /\ url' = after
        /\ purchaseTimeouts' = purchaseTimeouts + ScheduledFollowed(r.log, "purchase")
        /\ initTimeouts' = initTimeouts + ScheduledFollowed(r.log, "search")
        /\ trackingTimeouts' = trackingTimeouts + ScheduledFollowed(r.log, "payment")
        /\ Rewrite_timeouts' = Rewrite_timeouts + ScheduledFollowed(r.log, "rewrite")
        /\ Banner_timeouts' = Banner_timeouts + ScheduledFollowed(r.log, "banner")
        /\ Deposit_timeouts' = Deposit_timeouts + ScheduledFollowed(r.log, "deposit")
        /\ Security_timeouts' = Security_timeouts + ScheduledFollowed(r.log, "security")
        /\ zapierPurchasePosts' = PeriodCount(after, reservationText, summaryTotal)
        /\ pixelPurchaseCalls' = PixelPeriodCount(after)
        /\ addPaymentInfoVisitSent' = VisitSent(after)
        /\ UNCHANGED <<paymentErrorSentSinceCheck, bookNowListenersAttached>>
        /\ UNCHANGED <<readyState, hostPurchaseVars, purchaseEventCheckInterval,
                       purchaseEventFired, purchaseIntervals>>
        /\ UNCHANGED <<bannerTotal, fired, clickListeners, awaitingPrice, addClicked, sent,
                       sentEventIds, now, badgeVars>>
        /\ UNCHANGED <<hostPaymentVars, addPaymentInfoFired, paymentSubmitClickInitialized,
                       paymentSubmitClickFired, paymentErrorFired,
                       paymentErrorObserverInitialized, checkButtonAttempts,
                       tryObserveTimers, bodyObservers, paymentValueWaits, getPaymentValueCalledAt, paymentSent,
                       capiEventIds>>
        /\ UNCHANGED <<watcherVars, bannerDom, Banner_initialCheckAttempt,
                       Banner_initialCheckIntervalId, Banner_observer, Banner_intervals,
                       Banner_observers, bannerInsertDebounceTimer>>
        /\ UNCHANGED <<priceElements, Deposit_initialCheckAttempt,
                       Deposit_initialCheckIntervalId, Deposit_persistentRecheckIntervalId,
                       Deposit_observer, Deposit_initialIntervals,
                       Deposit_persistentIntervals, Deposit_observers,
                       Deposit_lastRecheck>>
        /\ UNCHANGED <<securityTarget, securityMessage, Security_pollAttempts,
                       Security_pollInterval, Security_observer, Security_intervals,
                       Security_observers>>

Host_pushState ==
    \E this \in Receivers, u \in Urls \cup {ForeignUrl} :
        /\ HistoryCall("pushState", pushStateWrappers, this, u)
        /\ UNCHANGED <<cart, Rewrite_pollAttempts, Rewrite_pollInterval, Rewrite_intervals>>

Host_replaceState ==
    \E this \in Receivers, u \in Urls \cup {ForeignUrl} :
        /\ HistoryCall("replaceState", replaceStateWrappers, this, u)
        /\ UNCHANGED <<cart, Rewrite_pollAttempts, Rewrite_pollInterval, Rewrite_intervals>>

\* The host's calls and the re-checks they schedule, in the closure followed
HistoryNext ==
    \/ Host_pushState
    \/ Host_replaceState
    \/ Purchase_checkTimeout
    \/ Search_initTimeout
    \/ Payment_checkTimeout
    \/ Banner_urlTimeout
    \/ Deposit_urlTimeout
    \/ Rewrite_restartTimeout
    \/ Security_urlTimeout

\* no call yet
InitHistory == historyCall = [fn |-> "none", this |-> "history", args |-> "", log |-> <<>>,
                              threw |-> FALSE]


(***************************************************************************)
(* Closure 6: the date badge of the calendar popover.                      *)
(***************************************************************************)
BADGE_CLASS == "hp-deal-badge"
MESSAGE_CLASS == "hp-nights-message"
MIN_NIGHTS_FOR_DEAL == 7

\* where findPriceP finds the 'Price in USD' paragraph: nowhere, in an element inside
\* the popover, or as a child of the popover itself
PricePKinds == {"none", "nested", "direct"}

\* what the popover holds of the calendar: nothing, [data-testid="calendar"] alone, or
\* the calendar with its .month-container children
CalendarKinds == {"none", "calendar", "months"}

\* the text findDateP finds, as the days of check-in and check-out (<< >>: no range)
DateRanges == {<< >>, <<1, 4>>, <<1, 8>>}

\* elements of the two classes; every element is a node of its own
BadgeNodes == [class : {BADGE_CLASS, MESSAGE_CLASS}, id : 1..(MaxBadgeNodes + 1)]

NodeIds(nodes) == { n.id : n \in nodes }

ScopeContents ==
    { S \in SUBSET BadgeNodes :
        /\ Cardinality(S) <= MaxBadgeNodes
        /\ Cardinality(NodeIds(S)) = Cardinality(S) }

PopoverDoms ==
    [priceP : PricePKinds, calendar : CalendarKinds, dateRange : DateRanges,
     nodes : ScopeContents, after : 0..MaxBadgeNodes]

\* nightsBetween(a, b), in days
nightsBetween(a, b) == b - a

\* let nights = 0; if (dateP) ... nights = nightsBetween(d1, d2)
NightsOf(dom) ==
    IF dom.dateRange = << >> THEN 0 ELSE nightsBetween(dom.dateRange[1], dom.dateRange[2])

\* updateDisplay finds an insertion point: the parent of the price paragraph, else the
\* last month container, else the calendar
HasInsertionPoint(dom) == dom.priceP # "none" \/ dom.calendar # "none"

\* insertAdjacentElement('afterend', ...) leaves the new element inside the popover,
\* unless the insertion point is the popover itself
InsertsInsideScope(dom) == dom.priceP # "direct"

\* the class of the element updateDisplay builds ("none": it builds none)
BuiltClass(dom) ==
    IF ~HasInsertionPoint(dom) THEN "none"
    ELSE IF NightsOf(dom) >= MIN_NIGHTS_FOR_DEAL
         THEN (IF dom.priceP # "none" THEN BADGE_CLASS ELSE "none")
         ELSE MESSAGE_CLASS

\* document.createElement('div'): a node that is none of the nodes there are
createElement(class, nodes) ==
    [class |-> class,
     id |-> CHOOSE i \in 1..(MaxBadgeNodes + 1) :
                /\ i \notin NodeIds(nodes)
                /\ \A k \in 1..(i - 1) : k \in NodeIds(nodes)]

\* the popover after the insertion updateDisplay makes, rest being the elements of the
\* two classes it has left in the subtree
updateDisplayInserting(dom, rest) ==
    IF BuiltClass(dom) = "none" THEN [dom EXCEPT !.nodes = rest]
    ELSE IF InsertsInsideScope(dom)
         THEN [dom EXCEPT !.nodes = rest \cup {createElement(BuiltClass(dom), dom.nodes)}]
         ELSE [dom EXCEPT !.nodes = rest, !.after = Min(@ + 1, MaxBadgeNodes)]

\* ... were updateDisplay to clear the badges only
updateDisplayKeepingMessages(dom) ==
    updateDisplayInserting(dom, { n \in dom.nodes : n.class = MESSAGE_CLASS })

\* updateDisplay(scope): both classes are cleared from the subtree, then one element
\* is inserted
updateDisplay(dom) == updateDisplayInserting(dom, {})

\* the MutationObserver (childList, subtree) sees a change of the subtree
SubtreeMutated(dom, dom2) == dom2.nodes # dom.nodes

\* attachObserver: retried every 200ms until the popover is there; then the observer
\* is attached and updateDisplay runs, its mutations reaching onMutate
Badge_attachObserver ==
    /\ Badge_attachTimeout
    /\ IF popoverInDocument
       THEN /\ Badge_observing' = TRUE
            /\ Badge_attachTimeout' = FALSE
            /\ popoverDom' = updateDisplay(popoverDom)
            /\ debounceTimer' = SubtreeMutated(popoverDom, updateDisplay(popoverDom))
       ELSE UNCHANGED <<Badge_observing, Badge_attachTimeout, popoverDom, debounceTimer>>
    /\ UNCHANGED <<popoverInDocument, Badge_hostMoves>>
    /\ UNCHANGED notBadge

\* the debounce timer fires: updateDisplay(popoverElement); onMutate sets the timer
\* again when the call changed the subtree
Badge_debounceTimeout ==
    /\ debounceTimer
    /\ popoverDom' = updateDisplay(popoverDom)
    /\ debounceTimer' = SubtreeMutated(popoverDom, updateDisplay(popoverDom))
    /\ UNCHANGED <<popoverInDocument, Badge_hostMoves, Badge_observing, Badge_attachTimeout>>
    /\ UNCHANGED notBadge

\* the host opens the calendar popover
Badge_hostShowsPopover ==
    /\ ~popoverInDocument
    /\ popoverInDocument' = TRUE
    /\ UNCHANGED <<popoverDom, Badge_hostMoves, Badge_observing, Badge_attachTimeout,
                   debounceTimer>>
    /\ UNCHANGED notBadge

\* the host renders the popover anew: price line, calendar and date range are what
\* the host makes them, and of the elements of the two classes the host may drop
\* some and bring others back; an attached observer calls onMutate
Badge_hostMutation ==
    \E dom2 \in PopoverDoms :
        /\ Badge_hostMoves < MaxHostMoves
        /\ dom2 # popoverDom
        /\ dom2.after = popoverDom.after
        /\ popoverDom' = dom2
        /\ Badge_hostMoves' = Badge_hostMoves + 1
        /\ debounceTimer' = (debounceTimer \/ Badge_observing)
        /\ UNCHANGED <<popoverInDocument, Badge_observing, Badge_attachTimeout>>
        /\ UNCHANGED notBadge

BadgeNext ==
    \/ Badge_attachObserver
    \/ Badge_debounceTimeout
    \/ Badge_hostShowsPopover
    \/ Badge_hostMutation

\* the script has run: the popover is not there yet, and attachObserver waits for it
InitBadge ==
    /\ popoverInDocument = FALSE
    /\ popoverDom = [priceP |-> "none", calendar |-> "none", dateRange |-> << >>,
                     nodes |-> {}, after |-> 0]
    /\ Badge_hostMoves = 0
    /\ Badge_observing = FALSE
    /\ Badge_attachTimeout = TRUE
    /\ debounceTimer = FALSE

\* the state after the script has run
InitEnv ==
    /\ url \in Urls
    /\ readyState \in {"loading", "interactive"}

\* the closure's last statement calls checkConfirmationPage
InitPurchase ==
    /\ fbqLoaded = FALSE
    /\ reservationText = FALSE
    /\ summaryTotal = <<>>
    /\ purchaseEventCheckInterval = IF IsConfirmationUrl(url) THEN 1 ELSE Null
    /\ purchaseIntervals = IF IsConfirmationUrl(url) THEN {1} ELSE {}
    /\ purchaseEventFired = FALSE
    /\ purchaseTimeouts = 0
    /\ zapierPurchasePosts = 0
    /\ pixelPurchaseCalls = 0

InitWatcherEnv ==
    /\ url \in WatcherUrls
    /\ readyState \in {"loading", "interactive"}

InitClock == now = 0

InitClosures ==
    /\ InitClock /\ InitBadge
    /\ InitPurchase /\ InitSearch /\ InitPayment
    /\ InitBanner /\ InitDeposit /\ InitSecurity /\ InitRoutes /\ InitRewrite
    /\ InitHistory

Init == InitEnv /\ InitClosures /\ focus = "none"

InitBannerFocus == InitWatcherEnv /\ InitClosures /\ focus = "banner"

InitSecurityFocus == InitWatcherEnv /\ InitClosures /\ focus = "security"

InitWatchers == InitWatcherEnv /\ InitClosures /\ focus \in {"banner", "deposit", "security"}

SpecPurchase == Init /\ [][PurchaseNext]_vars

\* the browser runs every timer callback that is due; the host page and the user
\* are free to do nothing
SpecPurchaseFair ==
    /\ Init /\ [][PurchaseNext]_vars
    /\ WF_vars(Purchase_intervalTick) /\ WF_vars(Purchase_checkTimeout)
    /\ WF_vars(Purchase_DOMContentLoaded)

SpecSearch == Init /\ [][SearchNext]_vars

\* The search closure, with the clicks that find no listener
AddToCartNext ==
    \/ Search_DOMContentLoaded
    \/ Search_popstate
    \/ Search_pushState
    \/ Search_replaceState
    \/ Search_initTimeout
    \/ Search_click
    \/ Search_clickUnheard
    \/ Search_priceResolved
    \/ Search_hostRender

\* the script runs while the document is loading: DOMContentLoaded will call init
InitAddToCart == Init /\ readyState = "loading"

SpecAddToCart == InitAddToCart /\ [][AddToCartNext]_vars

SpecPaymentError == Init /\ [][PaymentErrorNext]_vars

\* The steps of AddPaymentInfo, with the navigation steps and the host's
PaymentInfoNext ==
    \/ Payment_DOMContentLoaded
    \/ Payment_popstate
    \/ Payment_pushState
    \/ Payment_replaceState
    \/ Payment_checkTimeout
    \/ Payment_infoValueResolved
    \/ Payment_tryObserveBody
    \/ Payment_hostRender

SpecPaymentInfo == Init /\ [][PaymentInfoNext]_vars

\* The steps of PaymentSubmitClick, with the navigation steps and the host's
PaymentSubmitNext ==
    \/ Payment_DOMContentLoaded
    \/ Payment_popstate
    \/ Payment_pushState
    \/ Payment_replaceState
    \/ Payment_checkTimeout
    \/ Payment_checkButton
    \/ Payment_clickBookNow
    \/ Payment_submitValueResolved
    \/ Payment_tryObserveBody
    \/ Payment_hostRender
    \/ Payment_hostRenderButton

SpecPaymentSubmit == Init /\ [][PaymentSubmitNext]_vars

\* checkPrice of getPaymentValue runs from setTimeout(checkPrice, 500) and from
\* setTimeout(checkPrice, 200): never in the millisecond getPaymentValue was called
\* in, and at any time later (a timer that is due waits for the running task)
CheckPriceTimerElapsed == now > getPaymentValueCalledAt

Timed_infoValueResolved == CheckPriceTimerElapsed /\ Payment_infoValueResolved

Timed_errorValueResolved == CheckPriceTimerElapsed /\ Payment_errorValueResolved

\* The events of the search and of the payment closure while the clock runs: a
\* Search on arrival, and AddPaymentInfo and PaymentError once their
\* getPaymentValue promises resolve.
EventIdsNext ==
    \/ ClockTick
    \/ Search_DOMContentLoaded
    \/ Payment_DOMContentLoaded
    \/ Timed_infoValueResolved
    \/ Timed_errorValueResolved
    \/ Payment_tryObserveBody
    \/ Payment_errorNodeAdded
    \/ Payment_hostRender

SpecEventIds == Init /\ [][EventIdsNext]_vars

\* the date badge reads neither the URL nor document.readyState
InitBadgeLoaded ==
    Init /\ url = Origin \o "/reservation/Ab1?checkin=1" /\ readyState = "interactive"

SpecBadge == InitBadgeLoaded /\ [][BadgeNext]_vars

\* the browser runs the debounce timer when it is due
SpecBadgeFair ==
    /\ InitBadgeLoaded /\ [][BadgeNext]_vars
    /\ WF_vars(Badge_debounceTimeout)

SpecBanner == InitBannerFocus /\ [][BannerNext]_vars

InitBannerVisit ==
    /\ url \in BannerVisitUrls /\ readyState \in {"loading", "interactive"}
    /\ InitClosures /\ focus = "banner"

SpecBannerVisit == InitBannerVisit /\ [][BannerVisitNext]_vars

\* the deposit clarification on a page whose URL stays what it was on load
DepositSameUrlNext ==
    \/ Deposit_DOMContentLoaded
    \/ Deposit_replaceStateSameUrl
    \/ Deposit_urlTimeout
    \/ Deposit_initialTick
    \/ Deposit_persistentTick
    \/ Deposit_hostMutation

InitDepositSameUrl == InitWatcherEnv /\ InitClosures /\ focus = "deposit"

SpecDepositSameUrl == InitDepositSameUrl /\ [][DepositSameUrlNext]_vars

\* the deposit clarification and the writes of the deposit rewrite on one page
DepositRewriteNext ==
    \/ Deposit_DOMContentLoaded
    \/ Deposit_replaceStateSameUrl
    \/ Deposit_urlTimeout
    \/ Deposit_initialTick
    \/ Deposit_persistentTick
    \/ Deposit_hostMutation
    \/ Deposit_rewriteWrite

SpecDepositRewrite == InitDepositSameUrl /\ [][DepositRewriteNext]_vars

\* the deposit clarification where the observer callback may throw
DepositRecheckNext ==
    \/ Deposit_DOMContentLoaded
    \/ Deposit_replaceStateSameUrl
    \/ Deposit_urlTimeout
    \/ Deposit_initialTick
    \/ Deposit_persistentTick
    \/ Deposit_hostMutation
    \/ Deposit_hostMutationCallbackThrows

SpecDepositRecheck == InitDepositSameUrl /\ [][DepositRecheckNext]_vars

SpecSecurity == InitSecurityFocus /\ [][SecurityNext]_vars

SpecWatchers == InitWatchers /\ [][WatchersNext]_vars

InitCartEnv ==
    /\ url \in CartUrls
    /\ readyState \in {"loading", "interactive"}

\* DOMContentLoaded with the listeners of the purchase and the deposit-rewrite closures
Checkout_DOMContentLoaded ==
    /\ readyState = "loading"
    /\ readyState' = "interactive"
    /\ checkConfirmationPage(url)
    /\ startPollingSafely(Rewrite_pollInterval, Rewrite_intervals)
    /\ UNCHANGED <<url, hostPurchaseVars, purchaseTimeouts, zapierPurchasePosts,
                   pixelPurchaseCalls, cart, Rewrite_pollAttempts, Rewrite_timeouts>>
    /\ UNCHANGED <<searchVars, hostPaymentVars, paymentVars, allWatcherVars, historyCall,
                   now, badgeVars>>

\* The purchase closure and the deposit rewrite on one page: the grand total is
\* read by the first and rewritten by the second.  The page stays where it is.
CheckoutNext ==
    \/ Checkout_DOMContentLoaded
    \/ Purchase_intervalTick
    \/ Purchase_hostRender
    \/ Rewrite_pollTick
    \/ Rewrite_pollTickThrows
    \/ Rewrite_hostRender

InitCart == InitCartEnv /\ InitClosures /\ focus = "none"

SpecRewrite == InitCart /\ [][RewriteNext]_vars

\* a behaviour follows the re-checks of one of the closures that wrap pushState
InitHistoryFocus ==
    /\ InitEnv /\ InitClosures
    /\ focus \in { pushStateWrappers[i] : i \in 1..Len(pushStateWrappers) }

SpecHistory == InitHistoryFocus /\ [][HistoryNext]_vars

SpecCheckout == InitCart /\ [][CheckoutNext]_vars

\* C1: during a contiguous period in which the URL contains '/confirmation' and the
\* reservation id and the total are on the page, the Zapier purchase POST is sent
\* at most once, whatever re-checks and interval ticks happen.
C1_ZapierPostAtMostOncePerPeriod == zapierPurchasePosts <= 1

\* C3: right after checkConfirmationPage has run with a URL that does not contain
\* '/confirmation', window.__purchaseEventFired is unset.
C3_FlagUnsetAfterLeaving ==
    [][ ( /\ \/ Purchase_DOMContentLoaded
             \/ Purchase_popstate
             \/ Purchase_checkTimeout
          /\ ~IsConfirmationUrl(url') )
        => ~purchaseEventFired' ]_vars

\* C2: within one page load the AddToCart event is sent at most once, also when
\* several click listeners registered by separate init calls handle the same click
\* and are all suspended awaiting getPriceValue.
C2_AddToCartAtMostOnce == sent.AddToCart <= 1

\* C8: once the navigation signals have been handled (DOMContentLoaded has fired, no
\* init re-check is pending), a URL with both 'checkin' and 'checkout' has had its
\* Search event sent, whichever signal source produced the URL.
C8_SearchSentForStayDates ==
    (readyState # "loading" /\ initTimeouts = 0 /\ HasStayDates(url)) => sent.Search >= 1

\* C4: over the page's lifetime trackPaymentError attaches at most one
\* MutationObserver to document.body, also when two checkForTrackingEvents calls
\* happen before the first delayed tryObserveBody has set the initialized flag.
C4_AtMostOneBodyObserver == bodyObservers <= 1

\* C5: once handleUrlChange has run for a URL that is not the guests page, no timer
\* or observer callback of the banner closure calls insertBanner until handleUrlChange
\* next runs for a guests-page URL; the 50ms debounce timer included.
C5_NoInsertBannerAfterRelease ==
    [][ ~( /\ ~routeActive.banner
           /\ \/ Banner_intervalTick
              \/ Banner_debounceTimeout /\ ~BannerPlaced(bannerDom) ) ]_vars

\* C6: in each of the banner, deposit-clarification and security-message closures, at
\* most one interval of each kind (initial poll; persistent re-check) is live and at
\* most one MutationObserver of the closure is connected, in every reachable state.
C6_AtMostOneWatchPerKind ==
    /\ Cardinality(Banner_intervals) <= 1
    /\ Cardinality(Banner_observers) <= 1
    /\ Cardinality(Deposit_initialIntervals) <= 1
    /\ Cardinality(Deposit_persistentIntervals) <= 1
    /\ Cardinality(Deposit_observers) <= 1
    /\ Cardinality(Security_intervals) <= 1
    /\ Cardinality(Security_observers) <= 1

\* the deposit closure after ticks of its initial poll, one of which inserted: one
\* persistent re-check interval is live and one observer is connected
C6_Witness_Deposit ==
    /\ focus = "deposit"
    /\ routeActive.deposit
    /\ Deposit_initialCheckAttempt > 0
    /\ Cardinality(Deposit_persistentIntervals) = 1
    /\ Cardinality(Deposit_observers) = 1

\* C7: after a navigation to a URL that is not the payment page, by pushState,
\* replaceState or back/forward, once the scheduled re-checks have run the security
\* closure holds no live poll interval and no connected observer.
C7_ReleasedOffPaymentPage ==
    ( /\ readyState # "loading"
      /\ Security_timeouts = 0
      /\ ~isPaymentPage(url) )
    => (Security_intervals = {} /\ Security_observers = {})

\* C9: when the route is active and the initial poll uses up its attempts without a
\* successful insertion, that tick has inserted nothing, the poll interval is stopped
\* and a mutation observer of the closure is connected after it.
C9_ObserverAfterExhaustedPoll ==
    [][ /\ ( /\ Banner_intervalTick
             /\ routeActive.banner
             /\ Banner_initialCheckAttempt >= Banner_INITIAL_CHECK_MAX_ATTEMPTS
             /\ ~insertBanner(bannerDom) )
           => ( /\ bannerDom' = bannerDom
                /\ Banner_intervals' = {}
                /\ Banner_observers' # {} )
        /\ ( /\ Deposit_initialTick
             /\ routeActive.deposit
             /\ Deposit_initialCheckAttempt >= Deposit_INITIAL_CHECK_MAX_ATTEMPTS
             /\ ~attemptInsertionLogic(priceElements) )
           => ( /\ \A e \in PriceElementIds :
                      priceElements'[e].span => priceElements[e].span
                /\ Deposit_initialIntervals' = {}
                /\ Deposit_observers' # {} )
        /\ ( /\ Security_pollTick
             /\ routeActive.security
             /\ Security_pollAttempts + 1 >= Security_MAX_POLL_ATTEMPTS
             /\ ~insertMessage )
           => ( /\ securityMessage' = securityMessage
                /\ Security_intervals' = {}
                /\ Security_observers' # {} ) ]_vars

\* C10: on the payment page, whenever the host has removed the target element and put
\* a new one in, the message gets into the new target; so in a state with a target
\* and no message, the handler having run for this URL and nothing pending, a poll
\* or an observer of the closure is still there to insert it.
C10_MessageRestoredAfterRerender ==
    ( /\ routeActive.security
      /\ isPaymentPage(url)
      /\ Security_timeouts = 0
      /\ securityTarget
      /\ ~securityMessage )
    => (Security_intervals # {} \/ Security_observers # {})

\* C11: when a polling session of the deposit rewrite ends at MAX_POLL_ATTEMPTS on a
\* tick that still finds no positive subtotal, the grand-total and the
\* banner-grand-total elements hold the text the host page rendered.
C11_HostContentAfterExhaustedPoll ==
    [][(/\ Rewrite_pollAttempts' = Rewrite_pollAttempts + 1
        /\ Rewrite_pollAttempts' >= Rewrite_MAX_POLL_ATTEMPTS
        /\ ~Rewrite_valuesValid)
       => (summaryTotal' = cart'.grand /\ bannerTotal' = cart'.banner)]_vars

\* C20: a tick of the deposit rewrite whose DOM rewrite throws leaves a poll interval
\* live, so that the rewrite is attempted again on a later tick.
C20_PollLiveAfterThrow ==
    [][Rewrite_pollTickThrows => Rewrite_intervals' # {}]_vars

\* C12: the value sent with the pixel's Purchase event is the full grand total the
\* host page rendered, however the purchase tick interleaves with applyDepositChanges.
C12_PurchaseValueIsHostGrandTotal ==
    [][(~purchaseEventFired /\ purchaseEventFired')
       => (cart.grand # <<>> /\ getTotalAmount = Head(cart.grand))]_vars

\* C13: a polling loop stops after finitely many unsuccessful attempts: if the URL
\* stays on '/confirmation' and the tracking data is never found, the purchase
\* script's 200ms interval is eventually cleared for good.
C13_PurchasePollStops ==
    <>[](IsConfirmationUrl(url) /\ ~TrackingDataFound) => <>[](purchaseIntervals = {})

\* C14: one session of the banner poll calls insertBanner at most
\* INITIAL_CHECK_MAX_ATTEMPTS (50) times: the k-th tick of a session runs with
\* initialCheckAttempt = k - 1, so every tick runs with initialCheckAttempt < 50.
C14_BannerPollAtMostMaxCalls ==
    [][(Banner_initialCheckAttempt' = Banner_initialCheckAttempt + 1)
       => (Banner_initialCheckAttempt < Banner_INITIAL_CHECK_MAX_ATTEMPTS)]_vars

C16_BannerInsertedOnceAtFirstTick ==
    [][(/\ Banner_initialCheckAttempt' = Banner_initialCheckAttempt + 1
        /\ Banner_initialCheckAttempt < Banner_INITIAL_CHECK_MAX_ATTEMPTS
        /\ Banner_timeouts = 0
        /\ routeActive.banner
        /\ FirstNode(bannerDom, "target") # 0)
       => (/\ Len(bannerDom') <= Len(bannerDom) + 1
           /\ FirstNode(bannerDom', "banner") # 0
           /\ Banner_intervals' = {})]_vars

\* C17: a run of the deposit clarification's handleUrlChange while the route is
\* already active and the URL is the one of the previous run leaves
\* initialCheckAttempt, the live intervals and the connected observers as they were.
C17_RepeatedHandleUrlChangeIsNoOp ==
    [][(/\ Deposit_timeouts' = Deposit_timeouts - 1
        /\ routeActive.deposit
        /\ Deposit_isTargetPage(url))
       => UNCHANGED <<Deposit_initialCheckAttempt, Deposit_initialIntervals,
                      Deposit_persistentIntervals, Deposit_observers>>]_vars

\* C18: while the URL contains '/confirmation', fbq('track', 'Purchase') has been
\* called at most once since the URL came to contain it, whatever navigation
\* re-checks and interval ticks have run.
C18_PixelPurchaseAtMostOncePerPeriod ==
    IsConfirmationUrl(url) => pixelPurchaseCalls <= 1

\* executeTrackingLogic has run twice in one confirmation period (two Zapier POSTs)
\* and called the pixel the first time only
C18_Witness_SecondRunSkipsPixel ==
    /\ IsConfirmationUrl(url)
    /\ zapierPurchasePosts = 2
    /\ pixelPurchaseCalls = 1
    /\ purchaseEventFired

\* C19: AddPaymentInfo is sent once per visit to the payment step: whenever the URL is
\* a payment-step URL that checkForTrackingEvents has seen, the grand total is
\* available, and neither a re-check nor a getPaymentValue promise is pending, exactly
\* one AddPaymentInfo event has been sent since the URL came to the payment step, on a
\* second visit as on the first.
C19_OneAddPaymentInfoPerVisit ==
    ( /\ IsPaymentStep(url)
      /\ addPaymentInfoFired
      /\ PaymentValueResolves
      /\ trackingTimeouts = 0
      /\ paymentValueWaits.AddPaymentInfo = 0 )
        => addPaymentInfoVisitSent = 1

\* C21: the deposit clarification is active on the room-selection page only: on a
\* '/reservation/<id>/guests' or '/reservation/<id>/payment' URL that handleUrlChange
\* has seen, the route test is false and no poll, persistent re-check or observer is live.
C21_InactiveOnGuestsAndPayment ==
    ( /\ Includes(url, "/guests") \/ Includes(url, "/payment")
      /\ Deposit_timeouts = 0 )
        => /\ ~routeActive.deposit
           /\ Deposit_initialIntervals = {}
           /\ Deposit_persistentIntervals = {}
           /\ Deposit_observers = {}

\* C22: after every run of attemptInsertionLogic, no price element whose text contains
\* 'Only Pay' contains the clarification span, whatever the host and the deposit-rewrite
\* script wrote into the elements before the run.
NoSpanBesideOnlyPay ==
    \A el \in PriceElementIds :
        priceElements[el].text = "onlyPay" => ~priceElements[el].span

C22_NoSpanBesideOnlyPayAfterRun ==
    [][RunsAttemptInsertionLogic => NoSpanBesideOnlyPay']_vars

C22_Witness_RewrittenTotalWithoutSpan ==
    /\ Deposit_observers # {}
    /\ priceElements["summary-total"] = [present |-> TRUE, text |-> "onlyPay", span |-> FALSE]
    /\ priceElements["room-0"].span

\* C23: when AddToCart has not fired, a click on an 'Add' button results in an
\* AddToCart event once the banner grand total shows a positive price, whatever was
\* clicked before: with such a click made, a positive price shown and no listener
\* waiting for the price any more, AddToCart has fired.
C23_AddClickLeadsToAddToCart ==
    (addClicked /\ PriceResolves /\ awaitingPrice = 0) => fired.AddToCart

\* C24: executeTrackingLogic sends the Zapier POST and the Purchase pixel only when a
\* reservation id and a non-zero total are on the page; a tick of the check interval
\* that finds either missing sends nothing, leaves window.__purchaseEventFired as it
\* was and leaves the interval live.
ReservationAndTotalOnPage ==
    reservationText /\ summaryTotal # <<>> /\ Head(summaryTotal) # 0

C26_OnePaymentErrorPerCheck == paymentErrorSentSinceCheck <= 1

C28_SearchOnceAndOnlyWithStayDates ==
    [][ /\ sent'.Search <= 1
        /\ sent'.Search > sent.Search => HasStayDates(url') ]_vars

C28_Witness_SecondInitSendsNoSearch ==
    /\ sent.Search = 1
    /\ HasStayDates(url)
    /\ clickListeners >= 2

\* a price element that shows a total and has no clarification span
LacksClarification(el) ==
    /\ priceElements[el].present
    /\ priceElements[el].text = "total"
    /\ ~priceElements[el].span

\* whenever the persistent re-check was the last to touch the price elements, none
\* of them lacks its span
PersistentTickReinserts ==
    (routeActive.deposit /\ Deposit_lastRecheck # "none")
        => \A el \in PriceElementIds : ~LacksClarification(el)

\* C29: while the route is active and after a successful insertion (a span is on
\* the page), a matched price element that lacks its clarification span, does not
\* contain 'Only Pay' and shows a total above 0.01 is never left without a pending
\* re-check: the persistent interval is live, or (sooner than its next tick) the
\* initial poll or a pending handleUrlChange is.
C29_MissingSpanIsReinserted ==
    ( /\ routeActive.deposit
      /\ \E el \in PriceElementIds : priceElements[el].span
      /\ \E el \in PriceElementIds : LacksClarification(el) )
        => \/ Deposit_persistentIntervals # {}
           \/ Deposit_initialIntervals # {}
           \/ Deposit_timeouts > 0

\* number of events sent with event_id id
EventsWithId(id) ==
    (IF id \in DOMAIN sentEventIds THEN sentEventIds[id] ELSE 0)
        + (IF id \in DOMAIN capiEventIds THEN capiEventIds[id] ELSE 0)

\* C30: no two events sent by sendEvent or sendCAPIEvent carry the same event_id.
C30_EventIdsUnique ==
    \A id \in DOMAIN sentEventIds \cup DOMAIN capiEventIds : EventsWithId(id) <= 1

\* a step that calls updateDisplay(popoverElement)
RunsUpdateDisplay ==
    \/ Badge_debounceTimeout
    \/ Badge_attachObserver /\ popoverInDocument

\* C31: right after every updateDisplay(scope) that finds an insertion point, the
\* subtree of the scope holds at most one element of the classes hp-deal-badge and
\* hp-nights-message in all, whatever it held before.
C31_AtMostOneBadgeOrMessage ==
    [][ (RunsUpdateDisplay /\ HasInsertionPoint(popoverDom))
            => Cardinality(popoverDom'.nodes) <= 1 ]_vars

\* the host had left two elements in the popover (nodes 1 and 2), and updateDisplay
\* has replaced them by the one it built
C31_Witness_TwoReplacedByOne ==
    /\ Badge_observing
    /\ HasInsertionPoint(popoverDom)
    /\ debounceTimer
    /\ \E n \in popoverDom.nodes : n.id = MaxBadgeNodes + 1
    /\ Cardinality(popoverDom.nodes) = 1

\* C32: once the host has stopped changing the calendar popover, updateDisplay is
\* called only finitely often: from some point on no debounce timer is pending (every
\* later call of updateDisplay is made by that timer).
C32_BadgeQuiesces == <>[](~debounceTimer)

====
